---- MODULE Spec2Model ----
(***************************************************************************)
(* hugo-extended: the runtime argument-vector builder (src/lib/args.ts),   *)
(* its callers in src/hugo.ts, and the command-tree discovery of           *)
(* scripts/generate-types.ts.                                              *)
(*                                                                         *)
(* JavaScript strings are sequences of one-character strings, so that      *)
(* split, startsWith, slice and the camelCase/kebab-case conversions are   *)
(* computed character by character as the code computes them.              *)
(***************************************************************************)
EXTENDS Integers, Sequences, FiniteSets, TLC

VARIABLES
    artifact,     \* state of generated/flags.json on disk
    cachedSpec,   \* args.ts: let cachedSpec: HugoSpec | null
    reads,        \* number of fs.readFileSync calls made by loadSpec
    populated,    \* number of assignments to cachedSpec
    pc,           \* position of the builder caller
    call,         \* the call being made: function, argument list
    out,          \* outcome of the call: thrown or returned args
    trace,        \* what each iteration of the buildArgs loop resolved and pushed
    ncalls,       \* calls completed by each caller
    queue,        \* generate-types.ts run(): the BFS worklist of token paths
    visited,      \* run(): the set of space-joined paths already dequeued
    commandSpecs, \* run(): one CommandSpec per visited node
    globalFlagsAll, \* run(): the global flags of every visited node, appended
    helpLog,      \* argument lists of the help invocations made so far
    helpOut,      \* what each of these invocations printed, or that it failed
    dpc,          \* position of run(): "loop", "written" or "failed"
    written,      \* the JSON document written to generated/flags.json
    types,        \* the HugoCommand union written to generated/types.ts
    exitCode,     \* process.exitCode of the discovery script
    pin,          \* the input given to a function of the help-text parser
    pout,         \* what the function returned
    ppc,          \* position of the parser caller
    child,        \* hugo.ts: the spawned child process and the events it has emitted
    promise,      \* hugo.ts: the promise returned by exec / execWithOutput
    env,          \* env.ts / utils.ts: what getEnvConfig and the platform give
    disk,         \* the paths at which a file exists
    inst,         \* install.ts: position, operation log and outcome of install()
    cli           \* cli.ts: position, resolved binary, child events, process.exitCode

builderVars == <<artifact, cachedSpec, reads, populated, pc, call, out, trace, ncalls>>
discVars == <<queue, visited, commandSpecs, globalFlagsAll, helpLog, helpOut, dpc, written, types,
              exitCode>>
parseVars == <<pin, pout, ppc>>
execVars == <<child, promise>>
cliVars == <<env, disk, inst, cli>>
vars == <<builderVars, discVars, parseVars, execVars, cliVars>>

-----------------------------------------------------------------------------
(* Bounds *)

MaxOpts == 2      \* entries in an options object
MaxCalls == 2     \* buildArgs calls per caller in one process
MaxNodes == 4     \* paths the discovery dequeues or still holds in its worklist

-----------------------------------------------------------------------------
(* Characters and strings *)

UpperChars == <<"A","B","C","D","E","F","G","H","I","J","K","L","M",
                "N","O","P","Q","R","S","T","U","V","W","X","Y","Z">>
LowerChars == <<"a","b","c","d","e","f","g","h","i","j","k","l","m",
                "n","o","p","q","r","s","t","u","v","w","x","y","z">>
DigitChars == <<"0","1","2","3","4","5","6","7","8","9">>

IsUpper(ch) == \E i \in 1..Len(UpperChars) : UpperChars[i] = ch

toLowerCase(ch) ==
    IF IsUpper(ch)
    THEN LowerChars[CHOOSE i \in 1..Len(UpperChars) : UpperChars[i] = ch]
    ELSE ch

startsWith(s, prefix) ==
    /\ Len(s) >= Len(prefix)
    /\ SubSeq(s, 1, Len(prefix)) = prefix

slice(s, from) == SubSeq(s, from + 1, Len(s))

\* split on runs of spaces, as split(/ +/) would: empty tokens are dropped.
RECURSIVE splitWordsAcc(_, _, _)
splitWordsAcc(s, cur, acc) ==
    IF s = <<>> THEN (IF cur = <<>> THEN acc ELSE Append(acc, cur))
    ELSE IF Head(s) = " "
    THEN splitWordsAcc(Tail(s), <<>>, IF cur = <<>> THEN acc ELSE Append(acc, cur))
    ELSE splitWordsAcc(Tail(s), Append(cur, Head(s)), acc)

splitWords(s) == splitWordsAcc(s, <<>>, <<>>)

\* String.prototype.split(" "): every single space ends a token, so two
\* adjacent spaces give an empty token and "" gives one empty token.
RECURSIVE splitAcc(_, _, _)
splitAcc(s, cur, acc) ==
    IF s = <<>> THEN Append(acc, cur)
    ELSE IF Head(s) = " " THEN splitAcc(Tail(s), <<>>, Append(acc, cur))
    ELSE splitAcc(Tail(s), Append(cur, Head(s)), acc)

split(s) == splitAcc(s, <<>>, <<>>)

\* Number.prototype.toString for integers.
RECURSIVE digits(_)
digits(n) ==
    IF n < 10 THEN <<DigitChars[n + 1]>>
    ELSE digits(n \div 10) \o <<DigitChars[(n % 10) + 1]>>

numberToString(n) == IF n < 0 THEN <<"-">> \o digits(0 - n) ELSE digits(n)

-----------------------------------------------------------------------------
(* JavaScript values *)

Undefined == [t |-> "undefined"]
Null      == [t |-> "null"]
Bool(b)   == [t |-> "boolean", v |-> b]
Num(n)    == [t |-> "number", v |-> n]
Str(s)    == [t |-> "string", v |-> s]
Arr(xs)   == [t |-> "array", v |-> xs]
Obj(es)   == [t |-> "object", v |-> es]      \* es: entries in iteration order

isArray(x) == x.t = "array"
IsNullish(x) == x.t \in {"undefined", "null"}
IsTrue(x) == x.t = "boolean" /\ x.v = TRUE

\* String(value)
RECURSIVE String(_)
RECURSIVE joinComma(_, _)
joinComma(xs, i) ==
    IF i > Len(xs) THEN <<>>
    ELSE (IF i > 1 THEN <<",">> ELSE <<>>)
         \o (IF IsNullish(xs[i]) THEN <<>> ELSE String(xs[i]))
         \o joinComma(xs, i + 1)

String(x) ==
    CASE x.t = "string"    -> x.v
      [] x.t = "number"    -> numberToString(x.v)
      [] x.t = "boolean"   -> IF x.v THEN <<"t","r","u","e">> ELSE <<"f","a","l","s","e">>
      [] x.t = "undefined" -> <<"u","n","d","e","f","i","n","e","d">>
      [] x.t = "null"      -> <<"n","u","l","l">>
      [] x.t = "array"     -> joinComma(x.v, 1)
      [] x.t = "object"    -> <<"[","o","b","j","e","c","t"," ","O","b","j","e","c","t","]">>

\* Object.entries(x): the own enumerable properties; for an array the indices.
entriesOf(x) ==
    CASE x.t = "object" -> x.v
      [] x.t = "array"  -> [i \in 1..Len(x.v) |->
                               [key |-> numberToString(i - 1), value |-> x.v[i]]]
      [] OTHER          -> <<>>

-----------------------------------------------------------------------------
(* The persisted schema, generated/flags.json *)

Flag(long, kind) == [long |-> long, kind |-> kind]

\* A schema as scripts/generate-types.ts writes it: global flags, then per
\* command the local flags that are not global.
FlagsJson ==
    [t |-> "object",
     globalFlags |-> <<
        Flag(<<"-","-","c","o","n","f","i","g">>, "string"),
        Flag(<<"-","-","q","u","i","e","t">>, "boolean") >>,
     commands |-> <<
        [command |-> <<"b","u","i","l","d">>,
         flags |-> <<
            Flag(<<"-","-","b","a","s","e","U","R","L">>, "string"),
            Flag(<<"-","-","m","i","n","i","f","y">>, "boolean"),
            Flag(<<"-","-","t","h","e","m","e">>, "string[]") >>],
        [command |-> <<"s","e","r","v","e","r">>,
         flags |-> <<
            Flag(<<"-","-","b","a","s","e","U","R","L">>, "string"),
            Flag(<<"-","-","m","i","n","i","f","y">>, "boolean"),
            Flag(<<"-","-","p","o","r","t">>, "number") >>] >>]

NoSpec == [t |-> "null"]

-----------------------------------------------------------------------------
(* src/lib/args.ts *)

\* loadSpec without the `if (cachedSpec) return cachedSpec` line.
loadSpecUncached(cached) ==
    IF artifact = "valid"
    THEN [threw |-> FALSE, spec |-> FlagsJson, cached |-> FlagsJson, read |-> 1, wrote |-> 1]
    ELSE [threw |-> TRUE, spec |-> NoSpec, cached |-> cached, read |-> 1, wrote |-> 0]

EmptySpec == [t |-> "object", globalFlags |-> <<>>, commands |-> <<>>]

\* loadSpec catching the read or parse error and defaulting to no schema.
loadSpecDefaulting(cached) ==
    IF cached.t # "null"
    THEN [threw |-> FALSE, spec |-> cached, cached |-> cached, read |-> 0, wrote |-> 0]
    ELSE IF artifact = "valid"
    THEN [threw |-> FALSE, spec |-> FlagsJson, cached |-> FlagsJson, read |-> 1, wrote |-> 1]
    ELSE [threw |-> FALSE, spec |-> EmptySpec, cached |-> EmptySpec, read |-> 1, wrote |-> 1]

\* loadSpec(): the cached value when there is one, else read and parse the
\* artifact.  readFileSync throws when the file is missing, JSON.parse when
\* its text is not JSON; in both cases cachedSpec keeps its value.
loadSpec(cached) ==
    IF cached.t # "null"
    THEN [threw |-> FALSE, spec |-> cached, cached |-> cached, read |-> 0, wrote |-> 0]
    ELSE IF artifact = "valid"
    THEN [threw |-> FALSE, spec |-> FlagsJson, cached |-> FlagsJson, read |-> 1, wrote |-> 1]
    ELSE [threw |-> TRUE, spec |-> NoSpec, cached |-> cached, read |-> 1, wrote |-> 0]

\* name.replace(/[A-Z]/g, (m) => `-${m.toLowerCase()}`)
RECURSIVE camelToKebab(_)
camelToKebab(name) ==
    IF name = <<>> THEN <<>>
    ELSE (IF IsUpper(Head(name)) THEN <<"-", toLowerCase(Head(name))>> ELSE <<Head(name)>>)
         \o camelToKebab(Tail(name))

NoFlag == [long |-> <<>>, kind |-> "none"]

FlagNameOf(f) == IF startsWith(f.long, <<"-","-">>) THEN slice(f.long, 2) ELSE f.long

\* findFlag comparing the kebab form only.
findFlagKebabOnly(flags, propName) ==
    LET kebab == camelToKebab(propName)
        hit(i) == FlagNameOf(flags[i]) = kebab
    IN  IF \E i \in 1..Len(flags) : hit(i)
        THEN flags[CHOOSE i \in 1..Len(flags) :
                      hit(i) /\ \A j \in 1..(i - 1) : ~hit(j)]
        ELSE NoFlag

\* flags.find(...): the first flag whose name is the kebab form of the
\* property or the property itself; NoFlag stands for undefined.
findFlag(flags, propName) ==
    LET kebab == camelToKebab(propName)
        hit(i) == FlagNameOf(flags[i]) = kebab \/ FlagNameOf(flags[i]) = propName
    IN  IF \E i \in 1..Len(flags) : hit(i)
        THEN flags[CHOOSE i \in 1..Len(flags) :
                      hit(i) /\ \A j \in 1..(i - 1) : ~hit(j)]
        ELSE NoFlag

\* The inference by typeof alone, an array falling to "string".
inferKindTypeof(value) ==
    IF value.t = "boolean" THEN "boolean"
    ELSE IF value.t = "number" THEN "number"
    ELSE "string"

inferKind(value) ==
    IF value.t = "boolean" THEN "boolean"
    ELSE IF value.t = "number" THEN "number"
    ELSE IF isArray(value)
    THEN (IF Len(value.v) > 0 /\ value.v[1].t = "number" THEN "number[]" ELSE "string[]")
    ELSE "string"

\* The flag pushed once, followed by all the items.
RECURSIVE itemStrings(_, _)
itemStrings(items, i) ==
    IF i > Len(items) THEN <<>> ELSE <<String(items[i])>> \o itemStrings(items, i + 1)

pushEachOnce(flagName, items, i) ==
    IF Len(items) = 0 THEN <<>> ELSE <<flagName>> \o itemStrings(items, i)

RECURSIVE pushEach(_, _, _)
\* for (const item of value) args.push(flagName, String(item))
pushEach(flagName, items, i) ==
    IF i > Len(items) THEN <<>>
    ELSE <<flagName, String(items[i])>> \o pushEach(flagName, items, i + 1)

\* The boolean case testing `if (value)` instead of `if (value === true)`.
formatByKindTruthy(kind, flagName, value) ==
    CASE kind = "boolean"  -> IF IsNullish(value) \/ value = Bool(FALSE)
                              THEN <<>> ELSE <<flagName>>
      [] kind = "string"   -> <<flagName, String(value)>>
      [] kind = "number"   -> <<flagName, String(value)>>
      [] kind = "string[]" -> IF isArray(value) THEN pushEach(flagName, value.v, 1) ELSE <<>>
      [] kind = "number[]" -> IF isArray(value) THEN pushEach(flagName, value.v, 1) ELSE <<>>
      [] OTHER             -> <<>>

\* The switch on the resolved kind: the tokens one option pushes.
formatByKind(kind, flagName, value) ==
    CASE kind = "boolean"  -> IF IsTrue(value) THEN <<flagName>> ELSE <<>>
      [] kind = "string"   -> <<flagName, String(value)>>
      [] kind = "number"   -> <<flagName, String(value)>>
      [] kind = "string[]" -> IF isArray(value) THEN pushEach(flagName, value.v, 1) ELSE <<>>
      [] kind = "number[]" -> IF isArray(value) THEN pushEach(flagName, value.v, 1) ELSE <<>>
      [] OTHER             -> <<>>

\* The skip testing `value === undefined` only.
isSkippedUndefinedOnly(value) == value.t = "undefined"

\* value === undefined || value === null
isSkipped(value) == value.t = "undefined" \/ value.t = "null"

\* One iteration of the loop over Object.entries(options).
processOption(allFlags, key, value) ==
    IF isSkipped(value)
    THEN [key |-> key, value |-> value, skipped |-> TRUE, matched |-> FALSE,
          flagName |-> <<>>, kind |-> "none", pushed |-> <<>>]
    ELSE LET flagSpec == findFlag(allFlags, key)
             found    == flagSpec # NoFlag
             flagName == IF found
                         THEN (IF startsWith(flagSpec.long, <<"-","-">>)
                               THEN flagSpec.long
                               ELSE <<"-","-">> \o flagSpec.long)
                         ELSE <<"-","-">> \o camelToKebab(key)
             kind     == IF found THEN flagSpec.kind ELSE inferKind(value)
         IN  [key |-> key, value |-> value, skipped |-> FALSE, matched |-> found,
              flagName |-> flagName, kind |-> kind,
              pushed |-> formatByKind(kind, flagName, value)]

\* spec.commands.find((c) => c.command === command)?.flags ?? []
commandFlags(spec, command) ==
    IF \E i \in 1..Len(spec.commands) : spec.commands[i].command = command
    THEN spec.commands[CHOOSE i \in 1..Len(spec.commands) :
                          /\ spec.commands[i].command = command
                          /\ \A j \in 1..(i - 1) : spec.commands[j].command # command].flags
    ELSE <<>>

\* The loop putting each option's tokens after those of the later options.
RECURSIVE optionLoopReversed(_, _, _, _)
optionLoopReversed(allFlags, entries, i, args) ==
    IF i > Len(entries) THEN args
    ELSE optionLoopReversed(allFlags, entries, i + 1, args)
         \o processOption(allFlags, entries[i].key, entries[i].value).pushed

RECURSIVE optionLoop(_, _, _, _)
\* args after the loop has run over entries i..Len(entries)
optionLoop(allFlags, entries, i, args) ==
    IF i > Len(entries) THEN args
    ELSE optionLoop(allFlags, entries, i + 1,
                    args \o processOption(allFlags, entries[i].key, entries[i].value).pushed)

\* !options || Object.keys(options).length === 0
noOptions(options) == IsNullish(options) \/ Len(entriesOf(options)) = 0

\* buildArgs(command, options): outcome, and loadSpec's effect on the cache.
buildArgs(command, options) ==
    LET ld == loadSpec(cachedSpec) IN
    IF ld.threw
    THEN [threw |-> TRUE, args |-> <<>>, trace |-> <<>>, ld |-> ld]
    ELSE LET args0    == split(command)
             allFlags == ld.spec.globalFlags \o commandFlags(ld.spec, command)
             entries  == entriesOf(options)
         IN  IF noOptions(options)
             THEN [threw |-> FALSE, args |-> args0, trace |-> <<>>, ld |-> ld]
             ELSE [threw |-> FALSE,
                   args |-> optionLoop(allFlags, entries, 1, args0),
                   trace |-> [i \in 1..Len(entries) |->
                                 processOption(allFlags, entries[i].key, entries[i].value)],
                   ld |-> ld]

-----------------------------------------------------------------------------
(* src/hugo.ts: how exec and execWithOutput call buildArgs *)

\* The i-th actual argument of a call; a missing one is undefined.
Arg(argv, i) == IF i <= Len(argv) THEN argv[i] ELSE Undefined

\* A call of buildArgs with the argument list argv: the function declares
\* (command, options), so the first two actual arguments bind to them and
\* any further argument is not read.
applyBuildArgs(argv) == buildArgs(Arg(argv, 1).v, Arg(argv, 2))

\* exec / execWithOutput: the overloaded second parameter, then
\* buildArgs(command, positionalArgs, opts).
execBuildArgs(argv) ==
    LET command                 == Arg(argv, 1)
        positionalArgsOrOptions == Arg(argv, 2)
        options                 == Arg(argv, 3)
        positionalArgs == IF isArray(positionalArgsOrOptions)
                          THEN positionalArgsOrOptions ELSE Undefined
        opts           == IF isArray(positionalArgsOrOptions)
                          THEN options ELSE positionalArgsOrOptions
    IN  applyBuildArgs(<<command, positionalArgs, opts>>)

-----------------------------------------------------------------------------
(* Inputs *)

Commands == { <<"b","u","i","l","d">>,
              <<"s","e","r","v","e","r">>,
              <<"m","o","d"," ","c","l","e","a","n">>,
              <<"m","o","d"," "," ","g","e","t">> }

Keys == { <<"m","i","n","i","f","y">>,
          <<"b","a","s","e","U","R","L">>,
          <<"p","o","r","t">>,
          <<"t","h","e","m","e">>,
          <<"s","o","m","e","U","n","k","n","o","w","n","F","l","a","g">> }

Values == { Undefined, Null, Bool(TRUE), Bool(FALSE), Num(1313),
            Str(<<"v","i","m">>),
            Arr(<<Str(<<"a">>), Str(<<"b">>), Str(<<"c">>)>>),
            Arr(<<Num(8), Num(9)>>) }

OptionEntries == [key : Keys, value : Values]

\* Options objects of n properties, in every insertion order.
OptionSeqs(n) ==
    { es \in [1..n -> OptionEntries] :
        \A i, j \in 1..n : i # j => es[i].key # es[j].key }

Positionals == { Arr(<<Str(<<"m","y","-","s","i","t","e">>)>>),
                 Arr(<<Str(<<"a","r","g","1">>), Str(<<"a","r","g","2">>)>>) }

\* c is buildArgs(command) or buildArgs(command, options)
IsCall2(c) ==
    \E cmd \in Commands :
        \/ c = [fn |-> "buildArgs", args |-> <<Str(cmd)>>]
        \/ \E n \in 0..MaxOpts : \E es \in OptionSeqs(n) :
              c = [fn |-> "buildArgs", args |-> <<Str(cmd), Obj(es)>>]

\* c is buildArgs(command, positionalArgs, options), the options object
\* having at most MaxOpts - 1 properties
IsCall3(c) ==
    \E cmd \in Commands, p \in Positionals \cup {Undefined} :
        \E n \in 0..(MaxOpts - 1) : \E es \in OptionSeqs(n) :
            c = [fn |-> "buildArgs", args |-> <<Str(cmd), p, Obj(es)>>]

\* c is exec(command), exec(command, options), exec(command, positionalArgs)
\* or exec(command, positionalArgs, options), or the same of execWithOutput
IsCallExec(c) ==
    \E f \in {"exec", "execWithOutput"}, cmd \in Commands :
        \/ c = [fn |-> f, args |-> <<Str(cmd)>>]
        \/ \E p \in Positionals : c = [fn |-> f, args |-> <<Str(cmd), p>>]
        \/ \E n \in 0..(MaxOpts - 1) : \E es \in OptionSeqs(n) :
              \/ c = [fn |-> f, args |-> <<Str(cmd), Obj(es)>>]
              \/ \E p \in Positionals :
                    c = [fn |-> f, args |-> <<Str(cmd), p, Obj(es)>>]

\* The values of one property: those of Values, a mixed array in both
\* orders, and the empty array.
RuntimeValues ==
    Values \cup { Arr(<<Num(8), Str(<<"a">>)>>),
                  Arr(<<Str(<<"a">>), Num(8)>>),
                  Arr(<<>>) }

\* c is buildArgs(command, { key: value }) or the same call of exec or
\* execWithOutput
IsCallOneOption(c) ==
    \E f \in {"buildArgs", "exec", "execWithOutput"}, cmd \in Commands :
        \E k \in Keys, v \in RuntimeValues :
            c = [fn |-> f, args |-> <<Str(cmd), Obj(<<[key |-> k, value |-> v]>>)>>]

NoCall == [fn |-> "none", args |-> <<>>]
NoOut  == [threw |-> FALSE, args |-> <<>>]

Callers == {"c1", "c2"}

-----------------------------------------------------------------------------
(* scripts/generate-types.ts: discovery and assembly *)

\* tokens.join(" ")
RECURSIVE join(_, _)
join(tokens, i) ==
    IF i > Len(tokens) THEN <<>>
    ELSE (IF i > 1 THEN <<" ">> ELSE <<>>) \o tokens[i] \o join(tokens, i + 1)

\* String.prototype.localeCompare in the root collation, for the characters
\* of flag names and command paths: letters compare without case first, a
\* prefix sorts before its extensions, and on a tie the first difference in
\* case decides, lower case first.
Collation == <<" ", "-">> \o DigitChars \o LowerChars

\* The element of a one-element set.  { e(x) : x \in {v} } evaluates v
\* once, where an operator argument is evaluated again at each use.
Only(S) == CHOOSE x \in S : TRUE

CharRank(ch) ==
    Only({ (CHOOSE i \in 1..Len(Collation) : Collation[i] = c) : c \in {toLowerCase(ch)} })

RECURSIVE comparePrimary(_, _)
comparePrimary(a, b) ==
    IF a = <<>> THEN (IF b = <<>> THEN 0 ELSE 0 - 1)
    ELSE IF b = <<>> THEN 1
    ELSE Only({ IF ra < rb THEN 0 - 1
                ELSE IF ra > rb THEN 1
                ELSE comparePrimary(Tail(a), Tail(b)) :
                ra \in {CharRank(Head(a))}, rb \in {CharRank(Head(b))} })

RECURSIVE compareCase(_, _)
compareCase(a, b) ==
    IF a = <<>> \/ b = <<>> THEN 0
    ELSE IF Head(a) = Head(b) THEN compareCase(Tail(a), Tail(b))
    ELSE IF IsUpper(Head(b)) THEN 0 - 1 ELSE 1

localeCompare(a, b) ==
    Only({ IF comparePrimary(x, y) # 0 THEN comparePrimary(x, y) ELSE compareCase(x, y) :
           x \in {a}, y \in {b} })

\* Array.prototype.sort with a localeCompare comparator on each item's key:
\* a stable sort, here of <<key, item>> pairs.
RECURSIVE insertSorted(_, _)
insertSorted(x, sorted) ==
    IF sorted = <<>> THEN <<x>>
    ELSE IF localeCompare(x.key, Head(sorted).key) < 0 THEN <<x>> \o sorted
    ELSE <<Head(sorted)>> \o insertSorted(x, Tail(sorted))

RECURSIVE sortPairs(_)
sortPairs(xs) ==
    IF xs = <<>> THEN <<>>
    ELSE Only({ insertSorted(x, rest) :
                x \in {xs[Len(xs)]}, rest \in {sortPairs(SubSeq(xs, 1, Len(xs) - 1))} })

\* flags.sort((a, b) => a.long.localeCompare(b.long))
sortFlags(flags) ==
    Only({ [i \in 1..Len(sorted) |-> sorted[i].item] :
           sorted \in { sortPairs(pairs) :
                         pairs \in { [i \in 1..Len(fs) |-> [key |-> fs[i].long, item |-> fs[i]]] :
                                      fs \in {flags} } } })

\* commands.sort((a, b) => a.pathTokens.join(" ").localeCompare(b.pathTokens.join(" ")))
sortCommands(cmds) ==
    Only({ [i \in 1..Len(sorted) |-> sorted[i].item] :
           sorted \in { sortPairs(pairs) :
                         pairs \in { [i \in 1..Len(cs) |->
                                         [key |-> join(cs[i].pathTokens, 1), item |-> cs[i]]] :
                                      cs \in {cmds} } } })

\* The last flag of every long name, in order of last occurrence.
dedupeByLongLastWins(flags) ==
    LET Last(i) == \A j \in (i + 1)..Len(flags) : flags[j].long # flags[i].long
        nth[k \in 0..Len(flags)] ==
            IF k = 0 THEN <<>>
            ELSE IF Last(k) THEN Append(nth[k - 1], flags[k]) ELSE nth[k - 1]
    IN  nth[Len(flags)]

\* dedupeByLong: the first flag of every long name, in order of first
\* occurrence.
dedupeByLong(flags) ==
    LET first(i) == \A j \in 1..(i - 1) : flags[j].long # flags[i].long
        keep == { i \in 1..Len(flags) : first(i) }
        nth[k \in 0..Len(flags)] ==
            IF k = 0 THEN <<>>
            ELSE IF k \in keep THEN Append(nth[k - 1], flags[k]) ELSE nth[k - 1]
    IN  nth[Len(flags)]

\* c.flags.filter((f) => !globalLongSet.has(f.long))
stripGlobal(flags, globalLongSet) ==
    LET Local(f) == f.long \notin globalLongSet IN SelectSeq(flags, Local)

\* Each command's flags stripped of its own node's global flags only.
cleanCommandsOwnGlobals(specs, globalLongSet) ==
    LET NotRoot(c) == c.pathTokens[1] # <<"r","o","o","t">>
        kept == SelectSeq(specs, NotRoot)
    IN  [i \in 1..Len(kept) |->
            [kept[i] EXCEPT !.flags =
                stripGlobal(@, { kept[i].globalFlags[k].long :
                                   k \in 1..Len(kept[i].globalFlags) })]]

\* commandSpecs.filter((c) => c.pathTokens[0] !== "root").map(...)
cleanCommands(specs, globalLongSet) ==
    LET NotRoot(c) == c.pathTokens[1] # <<"r","o","o","t">>
        kept == SelectSeq(specs, NotRoot)
    IN  [i \in 1..Len(kept) |->
            [kept[i] EXCEPT !.flags = stripGlobal(@, globalLongSet)]]

\* The document run() writes to flags.json.  emitInterfaces has by then
\* sorted globalFlags, the commands and each command's flags in place.
assemble(specs, globalAll) ==
    LET document(globalFlags, sortedCommands) ==
            [t |-> "object",
             globalFlags |-> sortFlags(globalFlags),
             commands |-> [i \in 1..Len(sortedCommands) |->
                              [command |-> join(sortedCommands[i].pathTokens, 1),
                               flags |-> sortFlags(sortedCommands[i].flags)]]]
        cleaned(globalFlags) ==
            Only({ cleanCommands(specs, globalLongSet) :
                   globalLongSet \in {{ globalFlags[k].long : k \in 1..Len(globalFlags) }} })
    IN  Only({ Only({ document(globalFlags, sortedCommands) :
                      sortedCommands \in {sortCommands(cleaned(globalFlags))} }) :
               globalFlags \in {dedupeByLong(globalAll)} })

\* emitInterfaces(globalFlags, cleanedCommands): of the text written to
\* types.ts, the members of the HugoCommand union, in the sorted order.
emitInterfaces(specs, globalAll) ==
    Only({ [t |-> "text",
            HugoCommand |-> [i \in 1..Len(doc.commands) |-> doc.commands[i].command]] :
           doc \in {assemble(specs, globalAll)} })

\* getCommandHelp returning the output of `help <path>` whatever it holds.
getCommandHelpFirstText(tokens, out1, out2) ==
    IF Len(tokens) = 0
    THEN [text |-> out1, outs |-> <<out1>>, calls |-> << << <<"-","-","h","e","l","p">> >> >>]
    ELSE IF out1.avail
    THEN [text |-> out1, outs |-> <<out1>>, calls |-> << << <<"h","e","l","p">> >> \o tokens >>]
    ELSE [text |-> out1, outs |-> <<out1, out2>>,
          calls |-> << << <<"h","e","l","p">> >> \o tokens,
                       tokens \o << <<"-","-","h","e","l","p">> >> >>]

\* getCommandHelp(bin, tokens): out1 is the output of the first invocation,
\* out2 that of the second when there is one.
getCommandHelp(tokens, out1, out2) ==
    IF Len(tokens) = 0
    THEN [text |-> out1, outs |-> <<out1>>, calls |-> << << <<"-","-","h","e","l","p">> >> >>]
    ELSE IF out1.avail
    THEN [text |-> out1, outs |-> <<out1>>, calls |-> << << <<"h","e","l","p">> >> \o tokens >>]
    ELSE [text |-> out2, outs |-> <<out1, out2>>,
          calls |-> << << <<"h","e","l","p">> >> \o tokens,
                       tokens \o << <<"-","-","h","e","l","p">> >> >>]

\* parseCommandHelp(helpText, pathTokens), the three sections of the text
\* taken as parsed.
parseCommandHelp(helpText, pathTokens) ==
    [pathTokens |-> pathTokens, flags |-> helpText.flags,
     globalFlags |-> helpText.globalFlags, subcommands |-> helpText.subcommands]

\* Help outputs of the binary: whether the text holds "Available Commands:",
\* and the flags, global flags and subcommand names its sections list.
F_config   == Flag(<<"-","-","c","o","n","f","i","g">>, "string")
F_quiet    == Flag(<<"-","-","q","u","i","e","t">>, "boolean")
F_baseURL  == Flag(<<"-","-","b","a","s","e","U","R","L">>, "string")
F_quietStr == Flag(<<"-","-","q","u","i","e","t">>, "string")
N_mod  == <<"m","o","d">>
N_get  == <<"g","e","t">>
N_root == <<"r","o","o","t">>

HelpTexts ==
    { [avail |-> FALSE, flags |-> <<>>, globalFlags |-> <<>>, subcommands |-> <<>>],
      [avail |-> TRUE, flags |-> <<F_quiet, F_config>>, globalFlags |-> <<>>,
       subcommands |-> <<N_mod, N_get>>],
      [avail |-> TRUE, flags |-> <<F_baseURL, F_config>>, globalFlags |-> <<F_config>>,
       subcommands |-> <<N_mod, N_mod>>],
      [avail |-> TRUE, flags |-> <<F_config>>, globalFlags |-> <<F_quiet, F_quietStr>>,
       subcommands |-> <<N_get>>],
      [avail |-> FALSE, flags |-> <<F_baseURL, F_quiet, F_baseURL>>,
       globalFlags |-> <<F_config>>, subcommands |-> <<>>],
      [avail |-> FALSE, flags |-> <<F_quiet>>, globalFlags |-> <<F_config, F_quiet>>,
       subcommands |-> <<>>],
      [avail |-> TRUE, flags |-> <<>>, globalFlags |-> <<F_config>>,
       subcommands |-> <<N_root>>] }

NoDocument == [t |-> "null"]

\* The outcome of an invocation that exited non-zero or could not be
\* spawned: x(bin, args, { throwOnError: true }) throws.
Threw == [threw |-> TRUE]

\* The loop body without `if (visited.has(key)) continue`.
DiscVisitUnguarded ==
    /\ dpc = "loop"
    /\ queue # <<>>
    /\ \E out1 \in HelpTexts, out2 \in HelpTexts :
          LET tokens     == Head(queue)
              got        == getCommandHelp(tokens, out1, out2)
              pathTokens == IF Len(tokens) > 0 THEN tokens ELSE << <<"r","o","o","t">> >>
              spec       == parseCommandHelp(got.text, pathTokens)
          IN  /\ Cardinality(visited) + Len(queue) + Len(spec.subcommands) <= MaxNodes
              /\ visited' = visited \cup {join(tokens, 1)}
              /\ helpLog' = helpLog \o got.calls
              /\ helpOut' = helpOut \o got.outs
              /\ commandSpecs' = Append(commandSpecs, spec)
              /\ globalFlagsAll' = globalFlagsAll \o spec.globalFlags
              /\ queue' = Tail(queue) \o
                    [i \in 1..Len(spec.subcommands) |-> Append(tokens, spec.subcommands[i])]
    /\ UNCHANGED <<dpc, written, types, exitCode>>
    /\ UNCHANGED <<builderVars, parseVars, execVars, cliVars>>

\* One iteration of the while loop that finds the dequeued path new.
DiscVisit ==
    /\ dpc = "loop"
    /\ queue # <<>>
    /\ join(Head(queue), 1) \notin visited
    /\ \E out1 \in HelpTexts, out2 \in HelpTexts :
          LET tokens     == Head(queue)
              got        == getCommandHelp(tokens, out1, out2)
              pathTokens == IF Len(tokens) > 0 THEN tokens ELSE << <<"r","o","o","t">> >>
              spec       == parseCommandHelp(got.text, pathTokens)
          IN  /\ Cardinality(visited) + Len(queue) + Len(spec.subcommands) <= MaxNodes
              /\ visited' = visited \cup {join(tokens, 1)}
              /\ helpLog' = helpLog \o got.calls
              /\ helpOut' = helpOut \o got.outs
              /\ commandSpecs' = Append(commandSpecs, spec)
              /\ globalFlagsAll' = globalFlagsAll \o spec.globalFlags
              /\ queue' = Tail(queue) \o
                    [i \in 1..Len(spec.subcommands) |-> Append(tokens, spec.subcommands[i])]
    /\ UNCHANGED <<dpc, written, types, exitCode>>
    /\ UNCHANGED <<builderVars, parseVars, execVars, cliVars>>

\* The skipped path put back at the end of the worklist.
DiscSkipRequeue ==
    /\ dpc = "loop"
    /\ queue # <<>>
    /\ join(Head(queue), 1) \in visited
    /\ queue' = Append(Tail(queue), Head(queue))
    /\ UNCHANGED <<visited, commandSpecs, globalFlagsAll, helpLog, helpOut, dpc, written, types,
                   exitCode>>
    /\ UNCHANGED <<builderVars, parseVars, execVars, cliVars>>

\* One iteration that finds the dequeued path visited: continue.
DiscSkip ==
    /\ dpc = "loop"
    /\ queue # <<>>
    /\ join(Head(queue), 1) \in visited
    /\ queue' = Tail(queue)
    /\ UNCHANGED <<visited, commandSpecs, globalFlagsAll, helpLog, helpOut, dpc, written, types,
                   exitCode>>
    /\ UNCHANGED <<builderVars, parseVars, execVars, cliVars>>

\* The failure caught inside the loop: the node is given up, the exit code
\* is set and the loop goes on with the next path.
DiscFailContinue ==
    /\ dpc = "loop"
    /\ queue # <<>>
    /\ join(Head(queue), 1) \notin visited
    /\ helpLog' = helpLog \o getCommandHelp(Head(queue), CHOOSE h \in HelpTexts : h.avail,
                                             CHOOSE h \in HelpTexts : h.avail).calls
    /\ helpOut' = Append(helpOut, Threw)
    /\ visited' = visited \cup {join(Head(queue), 1)}
    /\ queue' = Tail(queue)
    /\ exitCode' = 1
    /\ UNCHANGED <<dpc, commandSpecs, globalFlagsAll, written, types>>
    /\ UNCHANGED <<builderVars, parseVars, execVars, cliVars>>

\* A help invocation exits non-zero or cannot be spawned: getHelp throws,
\* run() rejects and the catch handler sets the exit code.  The failing
\* invocation is the first one of the node, or the second one after a first
\* output without "Available Commands:".
DiscFail ==
    /\ dpc = "loop"
    /\ queue # <<>>
    /\ join(Head(queue), 1) \notin visited
    /\ \E out1 \in HelpTexts, second \in BOOLEAN :
          LET tokens == Head(queue)
              both   == getCommandHelp(tokens, out1, out1).calls
          IN  /\ second => (Len(tokens) > 0 /\ ~out1.avail)
              /\ helpLog' = helpLog \o (IF second THEN both ELSE <<both[1]>>)
              /\ helpOut' = helpOut \o (IF second THEN <<out1, Threw>> ELSE <<Threw>>)
    /\ visited' = visited \cup {join(Head(queue), 1)}
    /\ queue' = Tail(queue)
    /\ dpc' = "failed"
    /\ exitCode' = 1
    /\ UNCHANGED <<commandSpecs, globalFlagsAll, written, types>>
    /\ UNCHANGED <<builderVars, parseVars, execVars, cliVars>>

\* The worklist is empty: assemble the schema and write the artifacts.
DiscAssemble ==
    /\ dpc = "loop"
    /\ queue = <<>>
    /\ types' = emitInterfaces(commandSpecs, globalFlagsAll)
    /\ written' = assemble(commandSpecs, globalFlagsAll)
    /\ dpc' = "written"
    /\ UNCHANGED <<queue, visited, commandSpecs, globalFlagsAll, helpLog, helpOut, exitCode>>
    /\ UNCHANGED <<builderVars, parseVars, execVars, cliVars>>

DiscStart ==
    /\ queue = << <<>> >>
    /\ visited = {}
    /\ commandSpecs = <<>>
    /\ globalFlagsAll = <<>>
    /\ helpLog = <<>>
    /\ helpOut = <<>>
    /\ dpc = "loop"
    /\ written = NoDocument
    /\ types = NoDocument
    /\ exitCode = 0

-----------------------------------------------------------------------------
(* scripts/generate-types.ts: the help-text parser *)

Letters == { UpperChars[i] : i \in 1..Len(UpperChars) } \cup
           { LowerChars[i] : i \in 1..Len(LowerChars) }
Digits == { DigitChars[i] : i \in 1..Len(DigitChars) }

\* The classes \s, [A-Za-z], [A-Za-z0-9] and [A-Za-z0-9-] of the patterns.
IsSpace(ch) == ch \in {" ", "\t"}
IsLetter(ch) == ch \in Letters
IsAlnum(ch) == ch \in Letters \cup Digits
IsNameChar(ch) == IsAlnum(ch) \/ ch = "-"

\* String.prototype.toLowerCase
toLowerCaseStr(s) == [i \in 1..Len(s) |-> toLowerCase(s[i])]

\* The number of characters from position i on, up to the first one that is
\* not whitespace, not alphanumeric, not a name character.
RECURSIVE spaceRun(_, _)
spaceRun(s, i) == IF i <= Len(s) /\ IsSpace(s[i]) THEN 1 + spaceRun(s, i + 1) ELSE 0

RECURSIVE alnumRun(_, _)
alnumRun(s, i) == IF i <= Len(s) /\ IsAlnum(s[i]) THEN 1 + alnumRun(s, i + 1) ELSE 0

RECURSIVE nameRun(_, _)
nameRun(s, i) == IF i <= Len(s) /\ IsNameChar(s[i]) THEN 1 + nameRun(s, i + 1) ELSE 0

\* String.prototype.trimEnd, trimStart, trim
RECURSIVE trimEnd(_)
trimEnd(s) ==
    IF s # <<>> /\ IsSpace(s[Len(s)]) THEN trimEnd(SubSeq(s, 1, Len(s) - 1)) ELSE s

trimStart(s) == SubSeq(s, spaceRun(s, 1) + 1, Len(s))

trim(s) == trimEnd(trimStart(s))

\* s.replace(/\t/g, "    ")
RECURSIVE expandTabs(_)
expandTabs(s) ==
    IF s = <<>> THEN <<>>
    ELSE (IF Head(s) = "\t" THEN <<" ", " ", " ", " ">> ELSE <<Head(s)>>)
         \o expandTabs(Tail(s))

\* s.replace(/\s{2,}/g, " ")
RECURSIVE collapseSpaces(_)
collapseSpaces(s) ==
    IF s = <<>> THEN <<>>
    ELSE IF spaceRun(s, 1) >= 2
    THEN <<" ">> \o collapseSpaces(SubSeq(s, spaceRun(s, 1) + 1, Len(s)))
    ELSE <<Head(s)>> \o collapseSpaces(Tail(s))

\* The first position from i on that holds a character of the set, 0 if none.
RECURSIVE indexOfAny(_, _, _)
indexOfAny(s, chars, i) ==
    IF i > Len(s) THEN 0
    ELSE IF s[i] \in chars THEN i
    ELSE indexOfAny(s, chars, i + 1)

\* s.split(sep) for a one-character separator
RECURSIVE splitOn(_, _, _, _)
splitOn(s, sep, cur, acc) ==
    IF s = <<>> THEN Append(acc, cur)
    ELSE IF Head(s) = sep THEN splitOn(Tail(s), sep, <<>>, Append(acc, cur))
    ELSE splitOn(Tail(s), sep, Append(cur, Head(s)), acc)

KNOWN_TYPE_TOKENS ==
    { <<"s","t","r","i","n","g">>,
      <<"s","t","r","i","n","g","s">>,
      <<"i","n","t">>,
      <<"i","n","t","6","4">>,
      <<"u","i","n","t">>,
      <<"u","i","n","t","6","4">>,
      <<"f","l","o","a","t","6","4">>,
      <<"b","o","o","l">>,
      <<"b","o","o","l","e","a","n">>,
      <<"f","i","l","e">>,
      <<"d","u","r","a","t","i","o","n">>,
      <<"i","n","t","s">> }

\* Type words mapped to the same kind whatever the letter case, as in the
\* whitelist test, against the switch on typeToken.toLowerCase().
mapTypeTokenToKindCaseSensitive(typeToken) ==
    IF typeToken.t = "undefined" \/ typeToken.v = <<>> THEN "boolean"
    ELSE CASE typeToken.v \in {<<"b","o","o","l">>, <<"b","o","o","l","e","a","n">>} -> "boolean"
           [] typeToken.v \in {<<"s","t","r","i","n","g">>, <<"f","i","l","e">>, <<"d","u","r","a","t","i","o","n">>} -> "string"
           [] typeToken.v = <<"s","t","r","i","n","g","s">> -> "string[]"
           [] typeToken.v \in {<<"i","n","t">>, <<"i","n","t","6","4">>, <<"u","i","n","t">>, <<"u","i","n","t","6","4">>, <<"f","l","o","a","t","6","4">>} -> "number"
           [] typeToken.v = <<"i","n","t","s">> -> "number[]"
           [] OTHER -> "string"

mapTypeTokenToKind(typeToken) ==
    IF typeToken.t = "undefined" \/ typeToken.v = <<>> THEN "boolean"
    ELSE LET word == toLowerCaseStr(typeToken.v)
         IN  CASE word \in {<<"b","o","o","l">>, <<"b","o","o","l","e","a","n">>} -> "boolean"
               [] word \in {<<"s","t","r","i","n","g">>, <<"f","i","l","e">>, <<"d","u","r","a","t","i","o","n">>} -> "string"
               [] word = <<"s","t","r","i","n","g","s">> -> "string[]"
               [] word \in {<<"i","n","t">>, <<"i","n","t","6","4">>, <<"u","i","n","t">>, <<"u","i","n","t","6","4">>, <<"f","l","o","a","t","6","4">>} -> "number"
               [] word = <<"i","n","t","s">> -> "number[]"
               [] OTHER -> "string"

\* The tail \s+([^)]+)\)\s*$ of the default pattern tried at position k:
\* the whitespace is taken greedily and gives one character back when the
\* capture would otherwise be empty; the capture runs to the first ")",
\* after which only whitespace may follow.
defaultTail(s, k) ==
    LET w     == spaceRun(s, k)
        close == indexOfAny(s, {")"}, k + w)
        from  == IF close = k + w THEN k + w - 1 ELSE k + w
    IN  IF w >= 1 /\ close > 0 /\ (close > k + w \/ w >= 2)
           /\ spaceRun(s, close + 1) = Len(s) - close
        THEN [ok |-> TRUE, raw |-> SubSeq(s, from, close - 1)]
        ELSE [ok |-> FALSE, raw |-> <<>>]

\* /\s*\(default(?:\s+is)?\s+([^)]+)\)\s*$/i tried at position i.
defaultAt(s, i) ==
    LET j      == i + spaceRun(s, i)
        k      == j + 8
        w      == spaceRun(s, k)
        withIs == IF w >= 1 /\ k + w + 1 <= Len(s)
                     /\ toLowerCaseStr(SubSeq(s, k + w, k + w + 1)) = <<"i","s">>
                  THEN defaultTail(s, k + w + 2)
                  ELSE [ok |-> FALSE, raw |-> <<>>]
    IN  IF j + 7 <= Len(s) /\ s[j] = "("
           /\ toLowerCaseStr(SubSeq(s, j + 1, j + 7)) = <<"d","e","f","a","u","l","t">>
        THEN (IF withIs.ok THEN withIs ELSE defaultTail(s, k))
        ELSE [ok |-> FALSE, raw |-> <<>>]

\* extractDefault(desc): re.exec finds the leftmost position that matches.
extractDefault(desc) ==
    LET starts == { i \in 1..(Len(desc) + 1) : defaultAt(desc, i).ok }
        index  == CHOOSE i \in starts : \A k \in starts : i <= k
    IN  IF starts = {}
        THEN [cleaned |-> desc, defaultRaw |-> Undefined]
        ELSE [cleaned |-> trimEnd(SubSeq(desc, 1, index - 1)),
              defaultRaw |-> Str(trim(defaultAt(desc, index).raw))]

\* /^[A-Za-z0-9._-]+$/.test(p)
IsSimpleToken(p) ==
    /\ p # <<>>
    /\ \A i \in 1..Len(p) : IsAlnum(p[i]) \/ p[i] \in {".", "_", "-"}

\* /\(([^()]*\|[^()]*)\)/ tried at position i: a "(" whose next parenthesis
\* is a ")" with a "|" in between.
enumAt(s, i) ==
    LET close == indexOfAny(s, {"(", ")"}, i + 1)
        bar   == indexOfAny(s, {"|"}, i + 1)
    IN  /\ i <= Len(s) /\ s[i] = "("
        /\ close > 0 /\ s[close] = ")"
        /\ bar > 0 /\ bar < close

\* extractEnum accepting every parenthesised list with a "|".
extractEnumUnguarded(desc) ==
    LET starts == { i \in 1..Len(desc) : enumAt(desc, i) }
        index  == CHOOSE i \in starts : \A k \in starts : i <= k
        close  == indexOfAny(desc, {"(", ")"}, index + 1)
        pieces == splitOn(SubSeq(desc, index + 1, close - 1), "|", <<>>, <<>>)
        NonEmpty(p) == p # <<>>
        parts  == SelectSeq([n \in 1..Len(pieces) |-> trim(pieces[n])], NonEmpty)
    IN  IF starts = {}
        THEN [cleaned |-> desc, enum |-> Undefined]
        ELSE [cleaned |-> trim(collapseSpaces(SubSeq(desc, 1, index - 1)
                                               \o SubSeq(desc, close + 1, Len(desc)))),
              enum |-> Arr(parts)]

\* extractEnum(desc)
extractEnum(desc) ==
    LET starts == { i \in 1..Len(desc) : enumAt(desc, i) }
        index  == CHOOSE i \in starts : \A k \in starts : i <= k
        close  == indexOfAny(desc, {"(", ")"}, index + 1)
        pieces == splitOn(SubSeq(desc, index + 1, close - 1), "|", <<>>, <<>>)
        NonEmpty(p) == p # <<>>
        parts  == SelectSeq([n \in 1..Len(pieces) |-> trim(pieces[n])], NonEmpty)
    IN  IF starts = {}
        THEN [cleaned |-> desc, enum |-> Undefined]
        ELSE IF Len(parts) < 2 \/ \E n \in 1..Len(parts) : ~IsSimpleToken(parts[n])
        THEN [cleaned |-> desc, enum |-> Undefined]
        ELSE [cleaned |-> trim(collapseSpaces(SubSeq(desc, 1, index - 1)
                                               \o SubSeq(desc, close + 1, Len(desc)))),
              enum |-> Arr(parts)]

NoMatch == [matched |-> FALSE]

\* raw.match(FLAG_LINE), raw being trimmed at its end.  The long name is
\* taken greedily and gives its last character back when nothing would be
\* left for the description; the type word is taken only when whitespace
\* follows it; the description is the rest of the line.
matchFlagLine(raw) ==
    LET i0       == 1 + spaceRun(raw, 1)
        hasShort == /\ i0 + 2 <= Len(raw)
                    /\ raw[i0] = "-" /\ IsLetter(raw[i0 + 1]) /\ raw[i0 + 2] = ","
        i1       == IF hasShort THEN i0 + 3 + spaceRun(raw, i0 + 3) ELSE i0
        longOk   == /\ i1 + 2 <= Len(raw)
                    /\ raw[i1] = "-" /\ raw[i1 + 1] = "-" /\ IsAlnum(raw[i1 + 2])
        run      == nameRun(raw, i1 + 3)
        endMax   == i1 + 2 + run
        endLong  == IF endMax < Len(raw) THEN endMax ELSE endMax - 1
        i2       == endLong + 1 + spaceRun(raw, endLong + 1)
        word     == alnumRun(raw, i2)
        hasType  == /\ i2 <= Len(raw) /\ IsLetter(raw[i2])
                    /\ i2 + word <= Len(raw) /\ IsSpace(raw[i2 + word])
        i3       == IF hasType THEN i2 + word + spaceRun(raw, i2 + word) ELSE i2
    IN  IF ~longOk \/ (endMax = Len(raw) /\ run = 0)
        THEN NoMatch
        ELSE [matched |-> TRUE,
              short |-> IF hasShort THEN Str(SubSeq(raw, i0, i0 + 1)) ELSE Undefined,
              long  |-> SubSeq(raw, i1, endLong),
              type  |-> IF hasType THEN Str(SubSeq(raw, i2, i2 + word - 1)) ELSE Undefined,
              desc  |-> SubSeq(raw, i3, Len(raw))]

\* raw.trim().match(SECTION_HEADER)
isSectionHeader(raw) ==
    LET t == trim(raw)
    IN  /\ Len(t) >= 3
        /\ IsUpper(t[1])
        /\ t[Len(t)] = ":"
        /\ \A i \in 2..(Len(t) - 1) : IsLetter(t[i]) \/ t[i] = " "

\* raw.match(CONTINUATION_LINE), raw being trimmed at its end.
matchContinuation(raw) ==
    LET w == spaceRun(raw, 1)
    IN  IF w >= 2 /\ w + 2 <= Len(raw) /\ raw[w + 1] # "-"
        THEN [matched |-> TRUE, more |-> SubSeq(raw, w + 1, Len(raw))]
        ELSE NoMatch

\* The FlagSpec pushed for a matched flag line.
flagSpecOf(m) ==
    LET known     == m.type.t = "string" /\ toLowerCaseStr(m.type.v) \in KNOWN_TYPE_TOKENS
        typeToken == IF known THEN m.type ELSE Undefined
        desc      == IF m.type.t = "string" /\ ~known
                     THEN trim(m.type.v \o <<" ">> \o trim(m.desc))
                     ELSE trim(m.desc)
        def       == extractDefault(desc)
        en        == extractEnum(def.cleaned)
    IN  [long |-> m.long, short |-> m.short, typeToken |-> typeToken,
         kind |-> mapTypeTokenToKind(typeToken), description |-> en.cleaned,
         defaultRaw |-> def.defaultRaw, enum |-> en.enum]

\* The loop dropping a `--help` line without resetting `last`.
RECURSIVE parseFlagsKeepLast(_, _, _, _)
parseFlagsKeepLast(lines, i, acc, last) ==
    IF i > Len(lines) THEN [flags |-> acc, endIdx |-> Len(lines)]
    ELSE LET raw == trimEnd(expandTabs(lines[i]))
             m   == matchFlagLine(raw)
             c   == matchContinuation(raw)
         IN  IF startsWith(raw, <<"U","s","e"," ","\"","h","u","g","o"," ">>) \/ isSectionHeader(raw)
             THEN [flags |-> acc, endIdx |-> i - 1]
             ELSE IF m.matched /\ m.desc # <<>>
             THEN (IF m.long = <<"-","-","h","e","l","p">>
                   THEN parseFlagsKeepLast(lines, i + 1, acc, last)
                   ELSE parseFlagsKeepLast(lines, i + 1, Append(acc, flagSpecOf(m)), TRUE))
             ELSE IF c.matched /\ last
             THEN parseFlagsKeepLast(lines, i + 1,
                      [acc EXCEPT ![Len(acc)].description =
                          trim(collapseSpaces(@ \o <<" ">> \o trim(c.more)))], TRUE)
             ELSE parseFlagsKeepLast(lines, i + 1, acc, FALSE)

\* The loop of parseFlagsFromSection from line i (1-based) on; last tells
\* whether `last` refers to the flag pushed most recently or is null.
RECURSIVE parseFlagsLoop(_, _, _, _)
parseFlagsLoop(lines, i, acc, last) ==
    IF i > Len(lines) THEN [flags |-> acc, endIdx |-> Len(lines)]
    ELSE LET raw == trimEnd(expandTabs(lines[i]))
             m   == matchFlagLine(raw)
             c   == matchContinuation(raw)
         IN  IF startsWith(raw, <<"U","s","e"," ","\"","h","u","g","o"," ">>) \/ isSectionHeader(raw)
             THEN [flags |-> acc, endIdx |-> i - 1]
             ELSE IF m.matched /\ m.desc # <<>>
             THEN (IF m.long = <<"-","-","h","e","l","p">>
                   THEN parseFlagsLoop(lines, i + 1, acc, FALSE)
                   ELSE parseFlagsLoop(lines, i + 1, Append(acc, flagSpecOf(m)), TRUE))
             ELSE IF c.matched /\ last
             THEN parseFlagsLoop(lines, i + 1,
                      [acc EXCEPT ![Len(acc)].description =
                          trim(collapseSpaces(@ \o <<" ">> \o trim(c.more)))], TRUE)
             ELSE parseFlagsLoop(lines, i + 1, acc, FALSE)

\* parseFlagsFromSection(lines, startIdx), startIdx counted from 0.
parseFlagsFromSection(lines, startIdx) == parseFlagsLoop(lines, startIdx + 1, <<>>, FALSE)

\* ch.toUpperCase() of one character
toUpperCase(ch) ==
    IF \E i \in 1..Len(LowerChars) : LowerChars[i] = ch
    THEN UpperChars[CHOOSE i \in 1..Len(LowerChars) : LowerChars[i] = ch]
    ELSE ch

\* long.startsWith("--") ? long.slice(2) : long
normalizeLong(long) == IF startsWith(long, <<"-","-">>) THEN slice(long, 2) ELSE long

\* rest.map((p) => (p ? p[0].toUpperCase() + p.slice(1) : "")).join("")
RECURSIVE capitalizeJoin(_, _)
capitalizeJoin(parts, i) ==
    IF i > Len(parts) THEN <<>>
    ELSE (IF parts[i] = <<>> THEN <<>>
          ELSE <<toUpperCase(parts[i][1])>> \o slice(parts[i], 1))
         \o capitalizeJoin(parts, i + 1)

\* camelizeIfKebab returning as it is a name that holds a capital after
\* its first character, hyphens or not.
camelizeUnlessCapital(name) ==
    IF \/ ~(\E k \in 1..Len(name) : name[k] = "-")
       \/ \E k \in 2..Len(name) : IsUpper(name[k])
    THEN name
    ELSE LET parts == splitOn(name, "-", <<>>, <<>>)
         IN  parts[1] \o capitalizeJoin(parts, 2)

camelizeIfKebab(name) ==
    IF ~(\E k \in 1..Len(name) : name[k] = "-") THEN name
    ELSE LET parts == splitOn(name, "-", <<>>, <<>>)
         IN  parts[1] \o capitalizeJoin(parts, 2)

NoParse == [kind |-> "none"]

ParseStart ==
    /\ pin = NoParse
    /\ pout = NoParse
    /\ ppc = "idle"

NoChild == [state |-> "none"]
NoPromise == [state |-> "none"]

ExecStart ==
    /\ child = NoChild
    /\ promise = NoPromise

\* No install() call and no CLI run.
NoInstall == [pc |-> "idle"]
NoCli == [pc |-> "idle"]
NoEnv == [t |-> "null"]

CliStart ==
    /\ env = NoEnv
    /\ disk = {}
    /\ inst = NoInstall
    /\ cli = NoCli

-----------------------------------------------------------------------------
(* One call of the builder *)

\* The effect of a call whose outcome is r on the module state.
Settle(r) ==
    /\ out' = [threw |-> r.threw, args |-> r.args]
    /\ trace' = r.trace
    /\ cachedSpec' = r.ld.cached
    /\ reads' = reads + r.ld.read
    /\ populated' = populated + r.ld.wrote

\* A direct call of buildArgs with the drawn argument list.
CallBuildArgs ==
    /\ pc = "ready"
    /\ call.fn = "buildArgs"
    /\ Settle(applyBuildArgs(call.args))
    /\ pc' = "done"
    /\ UNCHANGED <<artifact, call, ncalls>>
    /\ UNCHANGED <<discVars, parseVars, execVars, cliVars>>

\* exec / execWithOutput up to the spawn of the binary with the built args.
CallExec ==
    /\ pc = "ready"
    /\ call.fn \in {"exec", "execWithOutput"}
    /\ Settle(execBuildArgs(call.args))
    /\ pc' = "done"
    /\ UNCHANGED <<artifact, call, ncalls>>
    /\ UNCHANGED <<discVars, parseVars, execVars, cliVars>>

Init ==
    /\ artifact = "valid"
    /\ cachedSpec = NoSpec
    /\ reads = 0
    /\ populated = 0
    /\ pc = "ready"
    /\ (IsCall2(call) \/ IsCall3(call) \/ IsCallExec(call))
    /\ out = NoOut
    /\ trace = <<>>
    /\ ncalls = [p \in Callers |-> 0]
    /\ DiscStart
    /\ ParseStart
    /\ ExecStart
    /\ CliStart

Next == CallBuildArgs \/ CallExec

Spec == Init /\ [][Next]_vars

-----------------------------------------------------------------------------
(* One call of the builder with an options object of one property *)

InitOption ==
    /\ artifact = "valid"
    /\ cachedSpec = NoSpec
    /\ reads = 0
    /\ populated = 0
    /\ pc = "ready"
    /\ IsCallOneOption(call)
    /\ out = NoOut
    /\ trace = <<>>
    /\ ncalls = [p \in Callers |-> 0]
    /\ DiscStart
    /\ ParseStart
    /\ ExecStart
    /\ CliStart

SpecOption == InitOption /\ [][Next]_vars

-----------------------------------------------------------------------------
(* Several callers calling buildArgs in one process *)

\* buildArgs is synchronous and Node runs one call to completion before the
\* next starts, so calls of different callers interleave call by call.
SmallCalls ==
    { [fn |-> "buildArgs", args |-> <<Str(<<"b","u","i","l","d">>)>>],
      [fn |-> "buildArgs", args |-> <<Str(<<"s","e","r","v","e","r">>)>>],
      [fn |-> "buildArgs", args |-> <<Str(<<"b","u","i","l","d">>), Obj(<<>>)>>],
      [fn |-> "buildArgs", args |->
          <<Str(<<"b","u","i","l","d">>),
            Obj(<<[key |-> <<"m","i","n","i","f","y">>, value |-> Bool(TRUE)]>>)>>],
      [fn |-> "buildArgs", args |->
          <<Str(<<"s","e","r","v","e","r">>),
            Obj(<<[key |-> <<"p","o","r","t">>, value |-> Num(1313)]>>)>>],
      [fn |-> "buildArgs", args |->
          <<Str(<<"m","o","d"," ","c","l","e","a","n">>),
            Obj(<<[key |-> <<"s","o","m","e","U","n","k","n","o","w","n","F","l","a","g">>,
                   value |-> Str(<<"v","i","m">>)]>>)>>] }

CallerCalls(p) ==
    /\ ncalls[p] < MaxCalls
    /\ \E c \in SmallCalls :
          /\ call' = c
          /\ Settle(applyBuildArgs(c.args))
    /\ ncalls' = [ncalls EXCEPT ![p] = @ + 1]
    /\ pc' = "done"
    /\ UNCHANGED artifact
    /\ UNCHANGED <<discVars, parseVars, execVars, cliVars>>

InitCalls ==
    /\ artifact \in {"valid", "missing", "malformed"}
    /\ cachedSpec = NoSpec
    /\ reads = 0
    /\ populated = 0
    /\ pc = "ready"
    /\ call = NoCall
    /\ out = NoOut
    /\ trace = <<>>
    /\ ncalls = [p \in Callers |-> 0]
    /\ DiscStart
    /\ ParseStart
    /\ ExecStart
    /\ CliStart

NextCalls == \E p \in Callers : CallerCalls(p)

SpecCalls == InitCalls /\ [][NextCalls]_vars

-----------------------------------------------------------------------------
(* One run of the discovery script *)

InitDiscovery ==
    /\ artifact = "missing"
    /\ cachedSpec = NoSpec
    /\ reads = 0
    /\ populated = 0
    /\ pc = "ready"
    /\ call = NoCall
    /\ out = NoOut
    /\ trace = <<>>
    /\ ncalls = [p \in Callers |-> 0]
    /\ DiscStart
    /\ ParseStart
    /\ ExecStart
    /\ CliStart

NextDiscovery == DiscVisit \/ DiscSkip \/ DiscFail \/ DiscAssemble

SpecDiscovery == InitDiscovery /\ [][NextDiscovery]_vars

\* A run in which every help invocation succeeds.  run() is one async
\* function: each await resumes once its invocation has completed, so the
\* loop keeps taking steps while one is possible.
NextDiscoveryOk == DiscVisit \/ DiscSkip \/ DiscAssemble

SpecDiscoveryLive ==
    InitDiscovery /\ [][NextDiscoveryOk]_vars /\ WF_vars(NextDiscoveryOk)

-----------------------------------------------------------------------------
(* One call of a function of the help-text parser *)

MaxPieces == 3    \* pieces a description is put together from
MaxLines == 3     \* lines of a flag section
MaxFlags == 3     \* flags in a list given to dedupeByLong

RECURSIVE concat(_, _)
concat(pieces, i) == IF i > Len(pieces) THEN <<>> ELSE pieces[i] \o concat(pieces, i + 1)

\* Descriptions: text, a default clause in several spellings, an enum clause
\* and near misses of both.
DescPieces ==
    { <<"p","o","r","t">>,
      <<" ">>,
      <<"(","d","e","f","a","u","l","t"," ","1",")">>,
      <<"(","D","e","f","a","u","l","t"," ","i","s"," ","a"," ","b",")">>,
      <<"(","a","|","b",")">>,
      <<"(","x"," ","y","|","z",")">>,
      <<"(","a","|",")">>,
      <<"(","d","e","f","a","u","l","t"," "," ",")">>,
      <<")">> }

\* One flag line: indentation, the optional short flag, the long flag, the
\* optional type column and the description.
TypeWords ==
    { <<"s","t","r","i","n","g">>,
      <<"s","t","r","i","n","g","s">>,
      <<"i","n","t">>,
      <<"i","n","t","6","4">>,
      <<"u","i","n","t">>,
      <<"u","i","n","t","6","4">>,
      <<"f","l","o","a","t","6","4">>,
      <<"b","o","o","l">>,
      <<"b","o","o","l","e","a","n">>,
      <<"f","i","l","e">>,
      <<"d","u","r","a","t","i","o","n">>,
      <<"i","n","t","s">>,
      <<"S","t","r","i","n","g">>,
      <<"I","N","T">>,
      <<"s","h","o","w">> }

FlagLine(short, long, type, desc) ==
    <<" ", " ">> \o short \o long
        \o (IF type = <<>> THEN <<>> ELSE <<" ">> \o type)
        \o (IF desc = <<>> THEN <<>> ELSE <<" ", " ", " ">> \o desc)

FlagLines ==
    { FlagLine(short, long, type, desc) :
        short \in {<<>>, <<"-","p",","," ">>},
        long \in {<<"-","-","p","o","r","t">>, <<"-","-","l","o","g","-","l","e","v","e","l">>},
        type \in TypeWords \cup {<<>>},
        desc \in {<<>>, <<"l","i","s","t","e","n"," ","p","o","r","t">>, <<"l","e","v","e","l"," ","(","d","e","b","u","g","|","i","n","f","o",")"," ","(","d","e","f","a","u","l","t"," ","i","n","f","o",")">>} }

\* Lines of a flag section of a help text.
SectionLines ==
    { <<" "," ","-","p",","," ","-","-","p","o","r","t"," ","i","n","t"," "," "," ","p","o","r","t"," ","n","u","m","b","e","r"," ","(","d","e","f","a","u","l","t"," ","1","3","1","3",")">>,
      <<" "," "," "," "," "," ","-","-","p","o","r","t"," ","s","t","r","i","n","g"," "," "," ","o","t","h","e","r"," ","p","o","r","t">>,
      <<" "," ","-","h",","," ","-","-","h","e","l","p"," "," "," ","h","e","l","p"," ","f","o","r"," ","h","u","g","o">>,
      <<" "," "," "," "," "," ","w","r","a","p","p","e","d"," ","t","e","x","t"," ","(","d","e","f","a","u","l","t"," ","2",")">>,
      <<>>,
      <<"G","l","o","b","a","l"," ","F","l","a","g","s",":">>,
      <<" "," "," "," "," "," ","-","-","q","u","i","e","t"," "," "," ","b","u","i","l","d"," ","i","n"," ","q","u","i","e","t"," ","m","o","d","e">>,
      <<"\t","-","-","l","o","g","L","e","v","e","l"," ","s","t","r","i","n","g"," "," "," ","l","o","g"," ","l","e","v","e","l"," ","(","d","e","b","u","g","|","i","n","f","o",")">>,
      <<"U","s","e"," ","\"","h","u","g","o"," ","[","c","o","m","m","a","n","d","]"," ","-","-","h","e","l","p","\""," ","f","o","r"," ","m","o","r","e"," ","i","n","f","o","r","m","a","t","i","o","n",".">> }

MaxSchemaLines == 2   \* flags of the section a schema is parsed from

\* Long names the flag pattern accepts: plain, capitalized inside,
\* hyphenated, and hyphenated with a capital, a digit, two hyphens in a row
\* or a hyphen at the end.
LongNames ==
    { <<"-","-","p","o","r","t">>, <<"-","-","b","a","s","e","U","R","L">>, <<"-","-","b","a","s","e","U","r","l">>, <<"-","-","b","a","s","e","-","u","r","l">>, <<"-","-","l","o","g","-","l","e","v","e","l">>,
      <<"-","-","f","o","o","-","b","a","r","B","a","z">>, <<"-","-","h","t","t","p","-","2">>, <<"-","-","a","-","-","b">>, <<"-","-","x","-">> }

SchemaLine(long, type) == FlagLine(<<>>, long, type, <<"t","e","x","t">>)

\* The value a caller passes for a flag of the kind.
ValueOfKind(kind) == IF kind = "boolean" THEN Bool(TRUE) ELSE Str(<<"v","i","m">>)

FlagSamples == {F_config, F_quiet, F_quietStr, F_baseURL}

IsDescInput(x) ==
    \E n \in 0..MaxPieces : \E ps \in [1..n -> DescPieces] :
        x = [kind |-> "desc", v |-> concat(ps, 1)]

IsSectionInput(x) ==
    \/ \E line \in FlagLines : x = [kind |-> "section", v |-> <<line>>]
    \/ \E n \in 0..MaxLines : \E ls \in [1..n -> SectionLines] :
          x = [kind |-> "section", v |-> ls]

IsFlagsInput(x) ==
    \E n \in 0..MaxFlags : \E fs \in [1..n -> FlagSamples] :
        x = [kind |-> "flags", v |-> fs]

\* A flag section of distinct long names and the position of one flag in it.
IsSchemaInput(x) ==
    \E n \in 1..MaxSchemaLines :
        \E ls \in [1..n -> LongNames], ts \in [1..n -> {<<>>, <<"s","t","r","i","n","g">>}] :
            /\ \A i, j \in 1..n : i # j => ls[i] # ls[j]
            /\ \E i \in 1..n :
                  x = [kind |-> "schema",
                       v |-> [k \in 1..n |-> SchemaLine(ls[k], ts[k])],
                       i |-> i]

ApplyExtractDefault ==
    /\ ppc = "ready"
    /\ pin.kind = "desc"
    /\ pout' = [fn |-> "extractDefault", r |-> extractDefault(pin.v)]
    /\ ppc' = "done"
    /\ UNCHANGED pin
    /\ UNCHANGED <<builderVars, discVars, execVars, cliVars>>

ApplyExtractEnum ==
    /\ ppc = "ready"
    /\ pin.kind = "desc"
    /\ pout' = [fn |-> "extractEnum", r |-> extractEnum(pin.v)]
    /\ ppc' = "done"
    /\ UNCHANGED pin
    /\ UNCHANGED <<builderVars, discVars, execVars, cliVars>>

ApplyParseFlags ==
    /\ ppc = "ready"
    /\ pin.kind = "section"
    /\ pout' = [fn |-> "parseFlagsFromSection", r |-> parseFlagsFromSection(pin.v, 0)]
    /\ ppc' = "done"
    /\ UNCHANGED pin
    /\ UNCHANGED <<builderVars, discVars, execVars, cliVars>>

ApplyDedupe ==
    /\ ppc = "ready"
    /\ pin.kind = "flags"
    /\ pout' = [fn |-> "dedupeByLong", r |-> dedupeByLong(pin.v)]
    /\ ppc' = "done"
    /\ UNCHANGED pin
    /\ UNCHANGED <<builderVars, discVars, execVars, cliVars>>

\* The property the emitter names for flag f, and the builder's loop
\* processing that property over the flags of the command.
emitAndBuildFlag(flags, f) ==
    Only({ [flags |-> flags, f |-> f, prop |-> prop,
            opt |-> processOption(flags, prop, ValueOfKind(f.kind))] :
           prop \in {camelizeIfKebab(normalizeLong(f.long))} })

\* The section is parsed into the flags of a command, the emitter names the
\* property of the flag at position i, and the builder processes it.
emitAndBuild(lines, i) ==
    Only({ emitAndBuildFlag(flags, IF i <= Len(flags) THEN flags[i] ELSE NoFlag) :
           flags \in {parseFlagsFromSection(lines, 0).flags} })

ApplyEmitAndBuild ==
    /\ ppc = "ready"
    /\ pin.kind = "schema"
    /\ pout' = [fn |-> "emitInterfaces", r |-> emitAndBuild(pin.v, pin.i)]
    /\ ppc' = "done"
    /\ UNCHANGED pin
    /\ UNCHANGED <<builderVars, discVars, execVars, cliVars>>

InitParse ==
    /\ artifact = "missing"
    /\ cachedSpec = NoSpec
    /\ reads = 0
    /\ populated = 0
    /\ pc = "ready"
    /\ call = NoCall
    /\ out = NoOut
    /\ trace = <<>>
    /\ ncalls = [p \in Callers |-> 0]
    /\ DiscStart
    /\ ExecStart
    /\ CliStart
    /\ (IsDescInput(pin) \/ IsSectionInput(pin) \/ IsFlagsInput(pin) \/ IsSchemaInput(pin))
    /\ pout = NoParse
    /\ ppc = "ready"

NextParse ==
    \/ ApplyExtractDefault \/ ApplyExtractEnum \/ ApplyParseFlags \/ ApplyDedupe
    \/ ApplyEmitAndBuild

SpecParse == InitParse /\ [][NextParse]_vars

-----------------------------------------------------------------------------
(* src/hugo.ts: exec and execWithOutput, from the call to the settled promise *)

MaxChunks == 2    \* 'data' events of each stream of one child
MaxErrors == 1    \* 'error' events of one child

ExecCalls ==
    { [fn |-> "exec", args |-> <<Str(<<"b","u","i","l","d">>), Obj(<<[key |-> <<"m","i","n","i","f","y">>, value |-> Bool(TRUE)]>>)>>],
      [fn |-> "exec", args |-> <<Str(<<"s","e","r","v","e","r">>)>>],
      [fn |-> "execWithOutput", args |-> <<Str(<<"v","e","r","s","i","o","n">>)>>],
      [fn |-> "execWithOutput", args |-> <<Str(<<"b","u","i","l","d">>), Arr(<<Str(<<"m","y","-","s","i","t","e">>)>>), Obj(<<>>)>>] }

\* The codes an 'exit' event carries: the exit code of the process, or null
\* when a signal ended it.
ExitCodes == {Num(0), Num(1), Num(2), Null}

Chunk == <<"o","k">>

\* resolve(value) and reject(reason): a promise settles at the first call
\* and later calls have no effect.
settle(p, state, value) ==
    IF p.state = "pending"
    THEN [state |-> state, value |-> value, calls |-> p.calls + 1]
    ELSE [p EXCEPT !.calls = @ + 1]

\* child.on("exit", (code) => ...)
onExit(fn, c, p, code) ==
    IF code = Num(0) \/ code = Null
    THEN settle(p, "fulfilled",
                IF fn = "exec" THEN Undefined
                ELSE [stdout |-> concat(c.stdoutChunks, 1), stderr |-> concat(c.stderrChunks, 1)])
    ELSE settle(p, "rejected", [error |-> "exit", code |-> code])

\* child.on("error", (err) => reject(err))
onError(p) == settle(p, "rejected", [error |-> "error"])

\* exec / execWithOutput up to the return of the promise: the arguments are
\* built and the child is spawned with its handlers attached; a throwing
\* buildArgs rejects the promise of the async function.
ExecSpawn ==
    /\ pc = "ready"
    /\ call.fn \in {"exec", "execWithOutput"}
    /\ LET r == execBuildArgs(call.args)
       IN  /\ Settle(r)
           /\ IF r.threw
              THEN /\ child' = child
                   /\ promise' = [state |-> "rejected", value |-> [error |-> "buildArgs"],
                                  calls |-> 1]
              ELSE /\ child' = [state |-> "running", args |-> r.args,
                                stdio |-> IF call.fn = "exec" THEN "inherit" ELSE "pipe",
                                events |-> <<>>, stdoutChunks |-> <<>>, stderrChunks |-> <<>>]
                   /\ promise' = [state |-> "pending", value |-> Undefined, calls |-> 0]
    /\ pc' = "done"
    /\ UNCHANGED <<artifact, call, ncalls>>
    /\ UNCHANGED <<discVars, parseVars, cliVars>>

\* A 'data' event of child.stdout or child.stderr (execWithOutput only:
\* exec lets the child inherit stdio and has no streams).
ChildData ==
    /\ child.state \in {"running", "exited"}
    /\ child.stdio = "pipe"
    /\ \/ /\ Len(child.stdoutChunks) < MaxChunks
          /\ child' = [child EXCEPT !.stdoutChunks = Append(@, Chunk)]
       \/ /\ Len(child.stderrChunks) < MaxChunks
          /\ child' = [child EXCEPT !.stderrChunks = Append(@, Chunk)]
    /\ UNCHANGED promise
    /\ UNCHANGED <<builderVars, discVars, parseVars, cliVars>>

\* The 'exit' event.
ChildExit ==
    /\ child.state = "running"
    /\ \E code \in ExitCodes :
          /\ child' = [child EXCEPT !.state = "exited",
                                    !.events = Append(@, [event |-> "exit", code |-> code])]
          /\ promise' = onExit(call.fn, child, promise, code)
    /\ UNCHANGED <<builderVars, discVars, parseVars, cliVars>>

\* An 'error' event: the process could not be spawned or could not be
\* killed.  An 'exit' event may or may not follow it.
ChildError ==
    /\ child.state \in {"running", "exited"}
    /\ Cardinality({ i \in 1..Len(child.events) : child.events[i].event = "error" }) < MaxErrors
    /\ child' = [child EXCEPT !.events = Append(@, [event |-> "error", code |-> Undefined])]
    /\ promise' = onError(promise)
    /\ UNCHANGED <<builderVars, discVars, parseVars, cliVars>>

InitExec ==
    /\ artifact \in {"valid", "missing"}
    /\ cachedSpec = NoSpec
    /\ reads = 0
    /\ populated = 0
    /\ pc = "ready"
    /\ call \in ExecCalls
    /\ out = NoOut
    /\ trace = <<>>
    /\ ncalls = [p \in Callers |-> 0]
    /\ DiscStart
    /\ ParseStart
    /\ ExecStart
    /\ CliStart

NextExec == ExecSpawn \/ ChildData \/ ChildExit \/ ChildError

SpecExec == InitExec /\ [][NextExec]_vars

-----------------------------------------------------------------------------
(* src/cli.ts, getHugoBinary of src/hugo.ts and src/lib/install.ts *)

MaxChecksumLines == 2   \* lines of the downloaded checksums file
MaxCliEvents == 2       \* 'error' and 'exit' events of the CLI's child

endsWith(s, suffix) ==
    /\ Len(s) >= Len(suffix)
    /\ SubSeq(s, Len(s) - Len(suffix) + 1, Len(s)) = suffix

\* getArchiveType(filename)
getArchiveType(filename) ==
    IF endsWith(filename, <<".","z","i","p">>) THEN "zip"
    ELSE IF endsWith(filename, <<".","t","a","r",".","g","z">>) THEN "tar.gz"
    ELSE IF endsWith(filename, <<".","p","k","g">>) THEN "pkg"
    ELSE "null"

\* What getReleaseFilename returns on the platforms: null where unsupported.
ReleaseFiles ==
    { Null,
      Str(<<"h","u","g","o","_","e","x","t","e","n","d","e","d","_","0",".","1","5","4",".","3","_","w","i","n","d","o","w","s","-","a","m","d","6","4",".","z","i","p">>),
      Str(<<"h","u","g","o","_","e","x","t","e","n","d","e","d","_","0",".","1","5","4",".","3","_","l","i","n","u","x","-","a","m","d","6","4",".","t","a","r",".","g","z">>),
      Str(<<"h","u","g","o","_","e","x","t","e","n","d","e","d","_","0",".","1","5","4",".","3","_","d","a","r","w","i","n","-","u","n","i","v","e","r","s","a","l",".","p","k","g">>) }

\* path.join(__dirname, "..", "..", "bin", getBinFilename())
LocalBin == <<"b","i","n","/","h","u","g","o">>
\* A value of HUGO_BIN_PATH.
EnvBin == <<"/","o","p","t","/","h","u","g","o">>
\* path.join(binDir, releaseFile)
DownloadPath(releaseFile) == <<"b","i","n","/">> \o releaseFile

\* getBinPath()
getBinPath(e) == IF e.binPath # Undefined THEN e.binPath.v ELSE LocalBin

\* doesBinExist(bin)
doesBinExist(files, bin) == bin \in files

\* SHA-256 digests, as hexadecimal text.
Hashes == {<<"a","a","1","1">>, <<"b","b","2","2">>}

\* Lines of a checksums file, each split at its whitespace: the hash, the
\* file name, and lines with one token or with three.
ChecksumLines(releaseFile) ==
    { <<h, releaseFile>> : h \in Hashes }
      \cup { <<<<"a","a","1","1">>, <<"h","u","g","o","_","0",".","1","5","4",".","3","_","l","i","n","u","x","-","a","m","d","6","4",".","t","a","r",".","g","z">>>>,
             <<<<"a","a","1","1">>>>,
             <<<<"b","b","2","2">>, <<"*">>, releaseFile>> }

\* parseChecksumFile(content).get(filename): a line of two or more tokens
\* maps its last token to its first, and a later line overwrites an earlier.
RECURSIVE checksumsGet(_, _, _, _)
checksumsGet(lines, i, filename, found) ==
    IF i > Len(lines) THEN found
    ELSE IF Len(lines[i]) >= 2 /\ lines[i][Len(lines[i])] = filename
    THEN checksumsGet(lines, i + 1, filename, Str(lines[i][1]))
    ELSE checksumsGet(lines, i + 1, filename, found)

\* verifyChecksum accepting the file whatever its digest.
verifyChecksumAnyDigest(response, filename, actualChecksum) ==
    IF ~response.ok THEN "failed to download checksums"
    ELSE LET expectedChecksum == checksumsGet(response.lines, 1, filename, Undefined)
         IN  IF expectedChecksum = Undefined THEN "checksum not found"
             ELSE "ok"

\* verifyChecksum(filePath, checksumUrl, filename): "ok" or the error thrown.
verifyChecksum(response, filename, actualChecksum) ==
    IF ~response.ok THEN "failed to download checksums"
    ELSE LET expectedChecksum == checksumsGet(response.lines, 1, filename, Undefined)
         IN  IF expectedChecksum = Undefined THEN "checksum not found"
             ELSE IF actualChecksum # expectedChecksum.v THEN "checksum mismatch"
             ELSE "ok"

IsChecksumResponse(r, releaseFile) ==
    \/ r = [ok |-> FALSE, lines |-> <<>>]
    \/ \E n \in 0..MaxChecksumLines : \E ls \in [1..n -> ChecksumLines(releaseFile)] :
          r = [ok |-> TRUE, lines |-> ls]

reject(i, error) == [i EXCEPT !.pc = "rejected", !.error = error]

\* install() from its call to the first await: the release file is chosen
\* and an unsupported platform throws.
InstallBegin ==
    /\ inst.pc = "called"
    /\ inst' = IF env.releaseFile = Null
               THEN reject(inst, "unsupported platform")
               ELSE [inst EXCEPT !.pc = "download"]
    /\ UNCHANGED <<env, disk, cli>>
    /\ UNCHANGED <<builderVars, discVars, parseVars, execVars>>

\* await downloadFile(releaseUrl, downloadPath), and the choice between
\* verifying and skipping that follows it.
InstallDownload ==
    /\ inst.pc = "download"
    /\ \/ /\ inst' = reject([inst EXCEPT !.log = Append(@, "download")], "download failed")
          /\ disk' = disk
       \/ \E h \in Hashes :
             /\ inst' = [inst EXCEPT !.pc = IF env.skipChecksum THEN "extract" ELSE "verify",
                                     !.log = Append(@, "download"),
                                     !.fileHash = h]
             /\ disk' = disk \cup {DownloadPath(env.releaseFile.v)}
    /\ UNCHANGED <<env, cli>>
    /\ UNCHANGED <<builderVars, discVars, parseVars, execVars>>

\* await verifyChecksum(downloadPath, checksumUrl, releaseFile)
InstallVerify ==
    /\ inst.pc = "verify"
    /\ \E r \in { x \in [ok : BOOLEAN, lines : UNION { [1..n -> ChecksumLines(env.releaseFile.v)] :
                                                       n \in 0..MaxChecksumLines }] :
                  IsChecksumResponse(x, env.releaseFile.v) } :
          LET v == verifyChecksum(r, env.releaseFile.v, inst.fileHash)
              i == [inst EXCEPT !.log = Append(@, "verify"), !.checksums = r]
          IN  inst' = IF v = "ok" THEN [i EXCEPT !.pc = "extract"] ELSE reject(i, v)
    /\ UNCHANGED <<env, disk, cli>>
    /\ UNCHANGED <<builderVars, discVars, parseVars, execVars>>

\* The rest of install(): the archive is extracted by its type, the
\* download is removed, the binary made executable when it is there, and
\* its version is asked, which throws when no binary can be run.  An archive
\* may be damaged, and a zip or tar archive may hold no binary.
InstallExtract ==
    /\ inst.pc = "extract"
    /\ \E extracted \in BOOLEAN, holdsBinary \in BOOLEAN :
          LET type == getArchiveType(env.releaseFile.v)
              i1   == [inst EXCEPT !.log = Append(@, "extract")]
          IN  IF ~extracted \/ (type = "pkg" /\ ~holdsBinary)
              THEN /\ inst' = reject(i1, "extraction failed")
                   /\ disk' = disk
              ELSE LET d1     == IF holdsBinary THEN disk \cup {LocalBin} ELSE disk
                       d2     == d1 \ {DownloadPath(env.releaseFile.v)}
                       i2     == [i1 EXCEPT !.log = Append(@, "unlink")]
                       i3     == IF LocalBin \in d2
                                 THEN [i2 EXCEPT !.log = Append(@, "chmod")] ELSE i2
                       i4     == [i3 EXCEPT !.log = Append(@, "version")]
                   IN  /\ disk' = d2
                       /\ inst' = IF LocalBin \in d2
                                  THEN [i4 EXCEPT !.pc = "fulfilled", !.result = Str(LocalBin)]
                                  ELSE reject(i4, "version failed")
    /\ UNCHANGED <<env, cli>>
    /\ UNCHANGED <<builderVars, discVars, parseVars, execVars>>

\* cli.ts up to `await hugo()`, and getHugoBinary up to its return or its
\* `await install()`.
CliGetBinary ==
    /\ cli.pc = "start"
    /\ LET bin == getBinPath(env)
       IN  IF doesBinExist(disk, bin)
           THEN /\ cli' = [cli EXCEPT !.pc = "spawn", !.bin = Str(bin)]
                /\ inst' = inst
           ELSE /\ cli' = [cli EXCEPT !.pc = "installing"]
                /\ inst' = [inst EXCEPT !.pc = "called"]
    /\ UNCHANGED <<env, disk>>
    /\ UNCHANGED <<builderVars, discVars, parseVars, execVars>>

\* install() has settled: getHugoBinary returns bin, or rejects and the
\* catch block of cli.ts sets the exit code.
CliInstalled ==
    /\ cli.pc = "installing"
    /\ inst.pc \in {"fulfilled", "rejected"}
    /\ cli' = IF inst.pc = "fulfilled"
              THEN [cli EXCEPT !.pc = "spawn", !.bin = Str(getBinPath(env))]
              ELSE [cli EXCEPT !.pc = "failed", !.exitCode = Num(1)]
    /\ UNCHANGED <<env, disk, inst>>
    /\ UNCHANGED <<builderVars, discVars, parseVars, execVars>>

\* spawn(bin, args, { stdio: "inherit" }) and the two handlers attached.
CliSpawn ==
    /\ cli.pc = "spawn"
    /\ cli' = [cli EXCEPT !.pc = "running"]
    /\ UNCHANGED <<env, disk, inst>>
    /\ UNCHANGED <<builderVars, discVars, parseVars, execVars>>

\* child.on("error", ...): the binary could not be spawned, or a signal
\* could not be sent to it.  When there is no file at bin the spawn fails,
\* so an 'error' is the first event.
CliChildError ==
    /\ cli.pc = "running"
    /\ Len(cli.events) < MaxCliEvents
    /\ cli' = [cli EXCEPT !.events = Append(@, [event |-> "error", code |-> Undefined]),
                          !.exitCode = Num(1)]
    /\ UNCHANGED <<env, disk, inst>>
    /\ UNCHANGED <<builderVars, discVars, parseVars, execVars>>

\* child.on("exit", (code) => { process.exitCode = code ?? undefined })
CliChildExit ==
    /\ cli.pc = "running"
    /\ Len(cli.events) < MaxCliEvents
    /\ \A n \in 1..Len(cli.events) : cli.events[n].event # "exit"
    /\ cli.bin.v \in disk \/ cli.events # <<>>
    /\ \E code \in ExitCodes :
          cli' = [cli EXCEPT !.events = Append(@, [event |-> "exit", code |-> code]),
                             !.exitCode = IF code = Null THEN Undefined ELSE code]
    /\ UNCHANGED <<env, disk, inst>>
    /\ UNCHANGED <<builderVars, discVars, parseVars, execVars>>

InitCli ==
    /\ artifact = "missing"
    /\ cachedSpec = NoSpec
    /\ reads = 0
    /\ populated = 0
    /\ pc = "ready"
    /\ call = NoCall
    /\ out = NoOut
    /\ trace = <<>>
    /\ ncalls = [p \in Callers |-> 0]
    /\ DiscStart
    /\ ParseStart
    /\ ExecStart
    /\ env \in [binPath : {Undefined, Str(EnvBin)}, skipChecksum : BOOLEAN,
                releaseFile : ReleaseFiles]
    /\ disk \in SUBSET {LocalBin, EnvBin}
    /\ inst = [pc |-> "idle", log |-> <<>>, fileHash |-> <<>>,
               checksums |-> Null, error |-> "", result |-> Undefined]
    /\ cli = [pc |-> "start", bin |-> Undefined, events |-> <<>>, exitCode |-> Undefined]

NextCli ==
    \/ CliGetBinary \/ InstallBegin \/ InstallDownload \/ InstallVerify \/ InstallExtract
    \/ CliInstalled \/ CliSpawn \/ CliChildError \/ CliChildExit

SpecCli == InitCli /\ [][NextCli]_vars

-----------------------------------------------------------------------------
(* Vocabulary of the properties *)

Done == pc = "done"

\* The finished call was buildArgs(command) or buildArgs(command, options).
Direct2 == Done /\ call.fn = "buildArgs" /\ Len(call.args) <= 2

\* The finished call was buildArgs(command, positionalArgs, options).
Direct3 == Done /\ call.fn = "buildArgs" /\ Len(call.args) = 3

CallCommand == call.args[1].v
CallOptions == Arg(call.args, 2)

RECURSIVE Flatten(_, _)
Flatten(seqs, i) == IF i > Len(seqs) THEN <<>> ELSE seqs[i] \o Flatten(seqs, i + 1)

RECURSIVE JoinWithSpace(_, _)
JoinWithSpace(tokens, i) ==
    IF i > Len(tokens) THEN <<>>
    ELSE (IF i > 1 THEN <<" ">> ELSE <<>>) \o tokens[i] \o JoinWithSpace(tokens, i + 1)

HasSpace(token) == \E k \in 1..Len(token) : token[k] = " "

Pushed == [i \in 1..Len(trace) |-> trace[i].pushed]

\* The flags the schema offers to the command of the finished call.
SchemaFlags == cachedSpec.globalFlags \o commandFlags(cachedSpec, CallCommand)

T_minify  == <<"-","-","m","i","n","i","f","y">>
T_baseURL == <<"-","-","b","a","s","e","U","R","L">>
T_someUnknownFlag ==
    <<"-","-","s","o","m","e","-","u","n","k","n","o","w","n","-","f","l","a","g">>

-----------------------------------------------------------------------------
(* C1 *)

\* C1: buildArgs called with absent options or with an empty options object
\* returns exactly the command split on single spaces: the tokens hold no
\* space and joined by single spaces they give the command back.
C1_CommandOnly ==
    (Direct2 /\ (Len(call.args) = 1 \/ CallOptions = Obj(<<>>)))
    => /\ ~out.threw
       /\ \A k \in 1..Len(out.args) : ~HasSpace(out.args[k])
       /\ JoinWithSpace(out.args, 1) = CallCommand
       /\ (CallCommand = <<"b","u","i","l","d">>
             => out.args = << <<"b","u","i","l","d">> >>)
       /\ (CallCommand = <<"m","o","d"," ","c","l","e","a","n">>
             => out.args = << <<"m","o","d">>, <<"c","l","e","a","n">> >>)

C1_Witness ==
    /\ Direct2
    /\ CallOptions = Obj(<<>>)
    /\ out.args = << <<"m","o","d">>, <<>>, <<"g","e","t">> >>

-----------------------------------------------------------------------------
(* C2 *)

\* C2: an option whose resolved kind is boolean pushes exactly the flag
\* token when its value is literally true and pushes nothing for any other
\* value.
C2_BooleanFlag ==
    Done => \A i \in 1..Len(trace) :
        trace[i].kind = "boolean" =>
            trace[i].pushed =
                IF trace[i].value.t = "boolean" /\ trace[i].value.v
                THEN <<trace[i].flagName>> ELSE <<>>

C2_Witness ==
    /\ Direct2
    /\ Len(trace) = 2
    /\ trace[1].kind = "boolean" /\ trace[1].value = Bool(TRUE)
    /\ trace[2].kind = "boolean" /\ trace[2].value = Num(1313)
    /\ out.args = << <<"b","u","i","l","d">>, <<"-","-","s","o","m","e","-","u","n","k","n","o","w","n","-","f","l","a","g">> >>

-----------------------------------------------------------------------------
(* C3 *)

ValueKinds == {"string", "number", "string[]", "number[]"}

\* C3: an option whose resolved kind carries a value pushes (flag, value)
\* pairs only: one pair with the string form of the value for string and
\* number, one pair per array element in array order for the list kinds.
C3_ValuePairs ==
    Done => \A i \in 1..Len(trace) :
        LET e == trace[i] IN
        e.kind \in ValueKinds =>
            /\ Len(e.pushed) % 2 = 0
            /\ \A k \in 1..(Len(e.pushed) \div 2) : e.pushed[2 * k - 1] = e.flagName
            /\ (e.kind \in {"string", "number"} =>
                  /\ Len(e.pushed) = 2
                  /\ e.pushed[2] = String(e.value)
                  /\ (e.value = Num(1313) => e.pushed[2] = <<"1","3","1","3">>))
            /\ (e.kind \in {"string[]", "number[]"} /\ e.value.t = "array" =>
                  /\ Len(e.pushed) = 2 * Len(e.value.v)
                  /\ \A k \in 1..Len(e.value.v) : e.pushed[2 * k] = String(e.value.v[k]))

C3_Witness ==
    /\ Direct2
    /\ Len(trace) = 2
    /\ trace[1].kind = "number" /\ trace[1].pushed = << <<"-","-","p","o","r","t">>, <<"1","3","1","3">> >>
    /\ trace[2].kind = "string[]"
    /\ trace[2].pushed = << <<"-","-","t","h","e","m","e">>, <<"a">>,
                            <<"-","-","t","h","e","m","e">>, <<"b">>,
                            <<"-","-","t","h","e","m","e">>, <<"c">> >>

-----------------------------------------------------------------------------
(* C4 *)

IsPresentEntry(e) == e.value.t \notin {"undefined", "null"}

\* C4: a key whose value is undefined or null pushes nothing, and the result
\* is the one buildArgs gives for the options without those keys.
C4_AbsentValues ==
    (Direct2 /\ CallOptions.t = "object") =>
        /\ \A i \in 1..Len(trace) :
              trace[i].value.t \in {"undefined", "null"} => trace[i].pushed = <<>>
        /\ out.args =
              buildArgs(CallCommand, Obj(SelectSeq(CallOptions.v, IsPresentEntry))).args

C4_Witness ==
    /\ Direct2
    /\ CallOptions.t = "object"
    /\ Len(CallOptions.v) = 2
    /\ CallOptions.v[1].value = Null
    /\ CallOptions.v[2].value = Bool(TRUE)
    /\ out.args = << <<"b","u","i","l","d">>, T_minify >>

-----------------------------------------------------------------------------
(* C5 *)

\* The flag is spelled as the key or as the hyphen-converted key.
NamesKey(f, key) ==
    \/ f.long = <<"-","-">> \o key
    \/ f.long = <<"-","-">> \o camelToKebab(key)

-----------------------------------------------------------------------------
(* C6 *)

\* C6: the result is the command tokens followed by the tokens of each
\* option in the iteration order of the options: the i-th block of tokens
\* is what the i-th key pushed.
C6_IterationOrder ==
    (Direct2 /\ ~out.threw) =>
        /\ Len(trace) = (IF noOptions(CallOptions) THEN 0 ELSE Len(entriesOf(CallOptions)))
        /\ \A i \in 1..Len(trace) : trace[i].key = entriesOf(CallOptions)[i].key
        /\ out.args = split(CallCommand) \o Flatten(Pushed, 1)

C6_Witness ==
    /\ Direct2
    /\ Len(trace) = 2
    /\ trace[1].pushed = << T_baseURL, <<"v","i","m">> >>
    /\ trace[2].pushed = << T_minify >>
    /\ out.args = << <<"b","u","i","l","d">>, T_baseURL, <<"v","i","m">>, T_minify >>

-----------------------------------------------------------------------------
(* C7 *)

\* The tokens buildArgs(command, options) puts after the command tokens.
FlagTokensOf(command, options) ==
    LET r == buildArgs(command, options)
    IN  SubSeq(r.args, Len(split(command)) + 1, Len(r.args))

PositionalTokens(p) == IF p.t = "array" THEN [i \in 1..Len(p.v) |-> String(p.v[i])] ELSE <<>>

\* C7: buildArgs(command, positionalArgs, options) returns the command
\* tokens, then the positional arguments unchanged and in order, then the
\* flag tokens of options; exec and execWithOutput pass an array second
\* argument as the positional arguments and the third as the options, and
\* a non-array second argument as the options.
C7_PositionalArgs ==
    /\ Direct3 =>
          out.args = split(CallCommand)
                     \o PositionalTokens(call.args[2])
                     \o FlagTokensOf(CallCommand, call.args[3])
    /\ (Done /\ call.fn \in {"exec", "execWithOutput"}) =>
          out.args = split(CallCommand)
                     \o PositionalTokens(Arg(call.args, 2))
                     \o FlagTokensOf(CallCommand,
                                     IF isArray(Arg(call.args, 2))
                                     THEN Arg(call.args, 3) ELSE Arg(call.args, 2))

-----------------------------------------------------------------------------
(* C8 *)

\* C8: the artifact is loaded into the cache at most once per process, the
\* first call that returns has populated it, once the cache holds a value
\* no call reads the artifact or writes the cache again, and with a
\* loadable artifact the file is read at most once, whichever caller calls
\* first.
C8_LoadedOnce ==
    /\ [](/\ populated <= 1
          /\ (artifact = "valid" => reads <= 1)
          /\ ((Done /\ ~out.threw) => (populated = 1 /\ cachedSpec = FlagsJson)))
    /\ [][cachedSpec # NoSpec => (reads' = reads /\ cachedSpec' = cachedSpec
                                    /\ populated' = populated)]_vars

C8_Witness ==
    /\ ncalls["c1"] = 2 /\ ncalls["c2"] = 2
    /\ cachedSpec = FlagsJson
    /\ reads = 1
    /\ populated = 1

-----------------------------------------------------------------------------
(* C9 *)

\* C9: with the artifact missing or not valid JSON every buildArgs call
\* throws, a call without options included, and nothing is cached.
C9_MalformedSchemaFatal ==
    (Done /\ artifact \in {"missing", "malformed"}) =>
        /\ out.threw
        /\ out.args = <<>>
        /\ cachedSpec = NoSpec

C9_Witness ==
    /\ Done
    /\ artifact = "malformed"
    /\ ncalls["c1"] = 1 /\ ncalls["c2"] = 1
    /\ Len(call.args) = 1
    /\ out.threw

-----------------------------------------------------------------------------
(* C10 *)

WrittenGlobalLongs == { written.globalFlags[k].long : k \in 1..Len(written.globalFlags) }

\* C10: in the schema a discovery run writes, no flag of any command's
\* flags list has a long name that is also in globalFlags.
C10_NoGlobalInCommandFlags ==
    dpc = "written" =>
        \A i \in 1..Len(written.commands) :
            \A k \in 1..Len(written.commands[i].flags) :
                written.commands[i].flags[k].long \notin WrittenGlobalLongs

\* A node listed --quiet among its own flags while only another node's
\* Global Flags section named it, and the command keeps a local flag.
C10_Witness ==
    /\ dpc = "written"
    /\ \E i \in 1..Len(commandSpecs) :
          /\ commandSpecs[i].pathTokens = <<N_mod>>
          /\ \E k \in 1..Len(commandSpecs[i].flags) :
                commandSpecs[i].flags[k].long = F_quiet.long
          /\ \A k \in 1..Len(commandSpecs[i].globalFlags) :
                commandSpecs[i].globalFlags[k].long # F_quiet.long
    /\ F_quiet.long \in WrittenGlobalLongs
    /\ \E i \in 1..Len(written.commands) :
          /\ written.commands[i].command = N_mod
          /\ written.commands[i].flags = <<F_baseURL, F_baseURL>>

-----------------------------------------------------------------------------
(* C11 *)

WrittenCommands == { written.commands[i].command : i \in 1..Len(written.commands) }

\* C11: the commands list of the written schema has exactly one entry for
\* every visited path other than the root (the empty path), and none for
\* the root: no visited command is dropped.
C11_OnlyRootRemoved ==
    dpc = "written" =>
        /\ WrittenCommands = visited \ {<<>>}
        /\ Len(written.commands) = Cardinality(visited) - 1

-----------------------------------------------------------------------------
(* C13 *)

\* C13: when every help invocation succeeds and the reported command tree
\* is finite, the worklist eventually empties and both artifacts are
\* written.
C13_Terminates ==
    <>(queue = <<>> /\ dpc = "written" /\ written # NoDocument /\ types # NoDocument)

\* A finished run over a tree of three levels, one of whose nodes was listed
\* twice by its parent.
C13_Witness ==
    /\ dpc = "written"
    /\ queue = <<>>
    /\ <<"m","o","d"," ","g","e","t">> \in visited
    /\ Len(helpLog) > Cardinality(visited)
    /\ Len(written.commands) >= 2

-----------------------------------------------------------------------------
(* C14 *)

\* C14: a subcommand name equal to the reporting node's own name or to the
\* name of one of its ancestors is skipped: no path is explored whose last
\* token already occurs earlier in the path.
C14_CycleSkipped ==
    \A i \in 1..Len(commandSpecs) :
        LET p == commandSpecs[i].pathTokens
        IN  \A k \in 1..(Len(p) - 1) : p[k] # p[Len(p)]

-----------------------------------------------------------------------------
(* C15 *)

\* C15: once a help invocation has failed the run is over with exit code 1:
\* neither artifact has been or is ever written, and no further help
\* invocation is made.
C15_HelpFailureFatal ==
    /\ []((exitCode # 0 \/ dpc = "failed") =>
            (dpc = "failed" /\ exitCode = 1 /\ written = NoDocument /\ types = NoDocument))
    /\ [][dpc = "failed" =>
            (helpLog' = helpLog /\ written' = written /\ types' = types
               /\ commandSpecs' = commandSpecs /\ exitCode' = exitCode)]_vars

\* The second invocation of the third node fails while paths are still in
\* the worklist.
C15_Witness ==
    /\ dpc = "failed"
    /\ exitCode = 1
    /\ Len(commandSpecs) = 2
    /\ queue # <<>>
    /\ Len(helpLog) >= 4
    /\ written = NoDocument

-----------------------------------------------------------------------------
(* C12 *)

ParsedFlags == ppc = "done" /\ pout.fn = "parseFlagsFromSection"

DistinctLongs(flags) ==
    \A i \in 1..Len(flags) : \A j \in 1..Len(flags) :
        i # j => flags[i].long # flags[j].long

\* C12: the long names are pairwise distinct in the flags list the section
\* parser returns for any section, and in globalFlags and every command's
\* flags of the written schema.
C12_DistinctLongs ==
    /\ ParsedFlags => DistinctLongs(pout.r.flags)
    /\ dpc = "written" =>
          /\ DistinctLongs(written.globalFlags)
          /\ \A i \in 1..Len(written.commands) : DistinctLongs(written.commands[i].flags)

-----------------------------------------------------------------------------
(* C16 *)

FlagKinds == {"boolean", "string", "number", "string[]", "number[]"}

\* The kind of each whitelisted type word.
KindOfWord(word) ==
    CASE word \in {<<"b","o","o","l">>, <<"b","o","o","l","e","a","n">>} -> "boolean"
      [] word \in {<<"s","t","r","i","n","g">>, <<"f","i","l","e">>, <<"d","u","r","a","t","i","o","n">>} -> "string"
      [] word = <<"s","t","r","i","n","g","s">> -> "string[]"
      [] word \in {<<"i","n","t">>, <<"i","n","t","6","4">>, <<"u","i","n","t">>, <<"u","i","n","t","6","4">>, <<"f","l","o","a","t","6","4">>} -> "number"
      [] word = <<"i","n","t","s">> -> "number[]"

\* C16: every FlagSpec of a parsed section has a kind of the enumeration
\* that its recorded type token determines: boolean without a type token,
\* otherwise the kind of the whitelisted word, in whatever letter case.  A
\* captured word outside the whitelist is not recorded: it opens the
\* description and the kind is boolean.
C16_KindOfTypeToken ==
    ParsedFlags =>
        /\ \A k \in 1..Len(pout.r.flags) :
              LET f == pout.r.flags[k]
              IN  /\ f.kind \in FlagKinds
                  /\ f.typeToken.t = "undefined" => f.kind = "boolean"
                  /\ f.typeToken.t = "string" =>
                        /\ toLowerCaseStr(f.typeToken.v) \in KNOWN_TYPE_TOKENS
                        /\ f.kind = KindOfWord(toLowerCaseStr(f.typeToken.v))
        /\ (Len(pin.v) = 1 /\ Len(pout.r.flags) = 1) =>
              LET m == matchFlagLine(trimEnd(expandTabs(pin.v[1])))
                  f == pout.r.flags[1]
              IN  IF m.type.t = "string" /\ toLowerCaseStr(m.type.v) \notin KNOWN_TYPE_TOKENS
                  THEN /\ f.typeToken = Undefined
                       /\ f.kind = "boolean"
                       /\ startsWith(m.type.v \o <<" ">> \o m.desc, f.description)
                  ELSE f.typeToken = m.type

\* A line whose first description word was captured as the type.
C16_Witness ==
    /\ ParsedFlags
    /\ Len(pout.r.flags) = 1
    /\ pout.r.flags[1].typeToken = Undefined
    /\ pout.r.flags[1].kind = "boolean"
    /\ pout.r.flags[1].description = <<"s","h","o","w"," ","l","i","s","t","e","n"," ","p","o","r","t">>
    /\ pout.r.flags[1].short = Str(<<"-","p">>)

-----------------------------------------------------------------------------
(* C17 *)

\* C17: extractDefault applied to the cleaned description it returned gives
\* that description back and no default.
C17_Idempotent ==
    (ppc = "done" /\ pout.fn = "extractDefault") =>
        extractDefault(pout.r.cleaned) = [cleaned |-> pout.r.cleaned, defaultRaw |-> Undefined]

-----------------------------------------------------------------------------
(* C18 *)

\* C18: an enum returned by extractEnum has at least two tokens, each of
\* them non-empty, without whitespace and made of the simple characters
\* only; when no enum is returned the description is returned unchanged.
C18_EnumGuard ==
    (ppc = "done" /\ pout.fn = "extractEnum") =>
        IF pout.r.enum.t = "array"
        THEN /\ Len(pout.r.enum.v) >= 2
             /\ \A n \in 1..Len(pout.r.enum.v) :
                   LET token == pout.r.enum.v[n]
                   IN  /\ token # <<>>
                       /\ \A i \in 1..Len(token) :
                             /\ ~IsSpace(token[i])
                             /\ IsAlnum(token[i]) \/ token[i] \in {".", "_", "-"}
        ELSE /\ pout.r.enum = Undefined
             /\ pout.r.cleaned = pin.v

\* A list of two simple tokens is taken out of the description.
C18_Witness ==
    /\ ppc = "done"
    /\ pout.fn = "extractEnum"
    /\ pin.v = <<"p","o","r","t","(","a","|","b",")"," ">>
    /\ pout.r = [cleaned |-> <<"p","o","r","t">>, enum |-> Arr(<<<<"a">>, <<"b">>>>)]

-----------------------------------------------------------------------------
(* C19 *)

\* The position of the first flag of the list with the long name.
FirstIndex(flags, long) ==
    CHOOSE i \in 1..Len(flags) :
        flags[i].long = long /\ \A j \in 1..(i - 1) : flags[j].long # long

\* C19: dedupeByLong returns, for every long name of its input, the first
\* flag carrying it and no other, in the order of these first occurrences,
\* and returns its own output unchanged.
C19_FirstWins ==
    (ppc = "done" /\ pout.fn = "dedupeByLong") =>
        /\ DistinctLongs(pout.r)
        /\ { pout.r[k].long : k \in 1..Len(pout.r) } = { pin.v[i].long : i \in 1..Len(pin.v) }
        /\ \A k \in 1..Len(pout.r) : pout.r[k] = pin.v[FirstIndex(pin.v, pout.r[k].long)]
        /\ \A k \in 1..Len(pout.r) : \A l \in (k + 1)..Len(pout.r) :
              FirstIndex(pin.v, pout.r[k].long) < FirstIndex(pin.v, pout.r[l].long)
        /\ dedupeByLong(pout.r) = pout.r

\* The second --quiet differs from the first in its kind and is dropped.
C19_Witness ==
    /\ ppc = "done"
    /\ pout.fn = "dedupeByLong"
    /\ pin.v = <<F_quiet, F_config, F_quietStr>>
    /\ pout.r = <<F_quiet, F_config>>

-----------------------------------------------------------------------------
(* C20 *)

Exited(code) ==
    /\ child.state = "exited"
    /\ \E i \in 1..Len(child.events) : child.events[i] = [event |-> "exit", code |-> code]

\* C20: the promise of exec / execWithOutput is fulfilled only when the
\* child exited with code 0; it is rejected when the child exited with
\* another code or without one (a signal ended it) and when an 'error'
\* event came first; once settled it never changes.
C20_ExecOutcome ==
    /\ [](promise.state = "fulfilled" => Exited(Num(0)))
    /\ []((\E code \in ExitCodes \ {Num(0)} : Exited(code)) => promise.state = "rejected")
    /\ []((child.state # "none" /\ child.events # <<>> /\ child.events[1].event = "error")
             => promise.state = "rejected")
    /\ [][promise.state \in {"fulfilled", "rejected"} =>
             (promise'.state = promise.state /\ promise'.value = promise.value)]_vars

-----------------------------------------------------------------------------
(* C24 *)

RECURSIVE SumGlobalFlags(_, _)
SumGlobalFlags(specs, i) ==
    IF i > Len(specs) THEN 0 ELSE Len(specs[i].globalFlags) + SumGlobalFlags(specs, i + 1)

\* C24: each space-joined path is visited at most once.  An iteration that
\* dequeues a path already in the visited set makes no help invocation and
\* records nothing; an iteration that dequeues a new path marks it visited
\* and records at most one CommandSpec.  So the specs recorded for commands
\* have pairwise different paths, there are no more specs than visited
\* paths, and the accumulated global flags are those of the recorded specs,
\* each taken once.
C24_VisitedOnce ==
    /\ [][(dpc = "loop" /\ queue # <<>>) =>
            IF join(Head(queue), 1) \in visited
            THEN /\ helpLog' = helpLog
                 /\ helpOut' = helpOut
                 /\ commandSpecs' = commandSpecs
                 /\ globalFlagsAll' = globalFlagsAll
                 /\ visited' = visited
                 /\ queue' = Tail(queue)
            ELSE /\ visited' = visited \cup {join(Head(queue), 1)}
                 /\ Len(commandSpecs') <= Len(commandSpecs) + 1]_vars
    /\ [](/\ Len(commandSpecs) <= Cardinality(visited)
          /\ \A i, j \in 2..Len(commandSpecs) :
                i # j => join(commandSpecs[i].pathTokens, 1) # join(commandSpecs[j].pathTokens, 1)
          /\ \A i \in 2..Len(commandSpecs) : join(commandSpecs[i].pathTokens, 1) \in visited
          /\ Len(globalFlagsAll) = SumGlobalFlags(commandSpecs, 1))

\* The root listed "mod" twice; "mod" was visited once, its second entry was
\* skipped, and the run wrote its artifacts.
C24_Witness ==
    /\ dpc = "written"
    /\ Len(commandSpecs) = 2
    /\ commandSpecs[1].subcommands = <<N_mod, N_mod>>
    /\ commandSpecs[2].pathTokens = <<N_mod>>
    /\ commandSpecs[2].globalFlags # <<>>
    /\ visited = {<<>>, N_mod}
    /\ Len(globalFlagsAll) = Len(commandSpecs[1].globalFlags) + Len(commandSpecs[2].globalFlags)

-----------------------------------------------------------------------------
(* C25 *)

\* The help invocations of the node visited by this step, in order.
NewCalls == [i \in 1..(Len(helpLog') - Len(helpLog)) |-> helpLog'[Len(helpLog) + i]]
NewOuts == [i \in 1..(Len(helpOut') - Len(helpOut)) |-> helpOut'[Len(helpOut) + i]]

\* C25: a step that records a node appends its help invocations to the log
\* in this order: for the root `--help` alone; for another node first
\* `help <path>`, and `<path> --help` after it exactly when the first
\* output does not hold "Available Commands:".  The recorded spec is parsed
\* from the output of the last of them.
C25_HelpOrder ==
    [][(commandSpecs' # commandSpecs) =>
         LET tokens == Head(queue)
             spec   == commandSpecs'[Len(commandSpecs')]
             n      == Len(NewCalls)
         IN  /\ Len(helpLog') >= Len(helpLog)
             /\ \A i \in 1..Len(helpLog) : helpLog'[i] = helpLog[i] /\ helpOut'[i] = helpOut[i]
             /\ Len(NewOuts) = n
             /\ n \in {1, 2}
             /\ IF tokens = <<>>
                THEN NewCalls = << << <<"-","-","h","e","l","p">> >> >>
                ELSE /\ NewCalls[1] = << <<"h","e","l","p">> >> \o tokens
                     /\ (n = 2) <=> ~NewOuts[1].avail
                     /\ n = 2 => NewCalls[2] = tokens \o << <<"-","-","h","e","l","p">> >>
             /\ spec.flags = NewOuts[n].flags
             /\ spec.globalFlags = NewOuts[n].globalFlags
             /\ spec.subcommands = NewOuts[n].subcommands]_vars

\* "mod" was asked with `help mod`, whose output had no "Available
\* Commands:", then with `mod --help`, whose different output was parsed.
C25_Witness ==
    /\ Len(helpLog) = 3
    /\ helpLog[1] = << <<"-","-","h","e","l","p">> >>
    /\ helpLog[2] = << <<"h","e","l","p">>, N_mod >>
    /\ helpLog[3] = << N_mod, <<"-","-","h","e","l","p">> >>
    /\ ~helpOut[2].avail
    /\ helpOut[3] # helpOut[2]
    /\ Len(commandSpecs) = 2
    /\ commandSpecs[2].flags = helpOut[3].flags
    /\ commandSpecs[2].flags # helpOut[2].flags

-----------------------------------------------------------------------------
(* C26 *)

\* The flag list returned by parseFlagsFromSection.
SectionFlags == pout.r.flags

\* C26: no description in a parsed flag list still ends with a
\* `(default ...)` clause: the default pattern of extractDefault finds
\* nothing in it.
C26_NoTrailingDefault ==
    ParsedFlags =>
        \A i \in 1..Len(SectionFlags) :
            \A k \in 1..(Len(SectionFlags[i].description) + 1) :
                ~defaultAt(SectionFlags[i].description, k).ok

-----------------------------------------------------------------------------
(* C28 *)

\* The line is a flag line naming `--help`, as the loop sees it.
IsHelpLine(line) ==
    LET m == matchFlagLine(trimEnd(expandTabs(line)))
    IN  m.matched /\ m.desc # <<>> /\ m.long = <<"-","-","h","e","l","p">>

IsWrappedLine(line) ==
    LET raw == trimEnd(expandTabs(line))
        m   == matchFlagLine(raw)
    IN  /\ matchContinuation(raw).matched
        /\ ~(m.matched /\ m.desc # <<>>)
        /\ ~isSectionHeader(raw)

Without(lines, i) == SubSeq(lines, 1, i - 1) \o SubSeq(lines, i + 1, Len(lines))

\* C28: a parsed flag list holds no flag whose long name is `--help`, and a
\* wrapped line that follows a `--help` line adds nothing to any flag: the
\* list is the one parsed from the section without that wrapped line.
C28_HelpDropped ==
    ParsedFlags =>
        /\ \A i \in 1..Len(SectionFlags) : SectionFlags[i].long # <<"-","-","h","e","l","p">>
        /\ \A i \in 1..(Len(pin.v) - 1) :
              (IsHelpLine(pin.v[i]) /\ IsWrappedLine(pin.v[i + 1])) =>
                  SectionFlags = parseFlagsFromSection(Without(pin.v, i + 1), 0).flags

\* `--port`, then `--help`, then a wrapped line: one flag, whose description
\* is that of its own line.
C28_Witness ==
    /\ ParsedFlags
    /\ Len(pin.v) = 3
    /\ ~IsHelpLine(pin.v[1])
    /\ IsHelpLine(pin.v[2])
    /\ IsWrappedLine(pin.v[3])
    /\ Len(SectionFlags) = 1
    /\ SectionFlags[1].long = <<"-","-","p","o","r","t">>
    /\ SectionFlags[1].description = <<"p","o","r","t"," ","n","u","m","b","e","r">>
    /\ SectionFlags[1].defaultRaw = Str(<<"1","3","1","3">>)

-----------------------------------------------------------------------------
(* C21 *)

\* C21: once getHugoBinary has resolved, a binary exists at the path it
\* resolved with; and when install() has rejected, getHugoBinary rejects.
C21_BinaryExists ==
    /\ (cli.pc # "idle" /\ cli.bin # Undefined) => cli.bin.v \in disk
    /\ (inst.pc = "rejected" /\ cli.pc # "installing") => (cli.pc = "failed" /\ cli.bin = Undefined)

-----------------------------------------------------------------------------
(* C22 *)

CliEvent(kind) == { n \in 1..Len(cli.events) : cli.events[n].event = kind }

\* C22: the exit code of the wrapper is non-zero when the binary could not
\* be obtained and when the child emitted an 'error', whether an 'exit' came
\* before it, after it or not at all; when the child only exited, it is the
\* exit code of the child.
C22_ExitCodeForwarded ==
    cli.pc # "idle" =>
        /\ cli.pc = "failed" => cli.exitCode \notin {Undefined, Num(0)}
        /\ CliEvent("error") # {} => cli.exitCode \notin {Undefined, Num(0)}
        /\ \A n \in CliEvent("exit") :
              (CliEvent("error") = {} /\ cli.events[n].code # Null)
                  => cli.exitCode = cli.events[n].code

-----------------------------------------------------------------------------
(* C30 *)

Logged(op) == \E n \in 1..Len(inst.log) : inst.log[n] = op

\* The checksums file was downloaded and the line that counts for the
\* release file, the last one naming it, gives the digest of the download.
DigestListed ==
    /\ inst.checksums # Null
    /\ inst.checksums.ok
    /\ \E i \in 1..Len(inst.checksums.lines) :
          LET line == inst.checksums.lines[i]
          IN  /\ Len(line) >= 2
              /\ line[Len(line)] = env.releaseFile.v
              /\ line[1] = inst.fileHash
              /\ \A j \in (i + 1)..Len(inst.checksums.lines) :
                    LET later == inst.checksums.lines[j]
                    IN  ~(Len(later) >= 2 /\ later[Len(later)] = env.releaseFile.v)

\* C30: without HUGO_SKIP_CHECKSUM, install() extracts, makes executable
\* and runs a binary only after the verification, and only when the digest
\* of the download is the one listed for the release file; when the
\* verification has failed install() has rejected and none of these
\* operations has taken place.
C30_VerifiedBeforeExtract ==
    (inst.pc # "idle" /\ ~env.skipChecksum) =>
        /\ (Logged("extract") \/ Logged("chmod") \/ Logged("version") \/ inst.pc = "fulfilled") =>
              /\ DigestListed
              /\ \E v \in 1..Len(inst.log) : \E x \in 1..Len(inst.log) :
                    inst.log[v] = "verify" /\ inst.log[x] = "extract" /\ v < x
              /\ \A n \in 1..Len(inst.log) :
                    inst.log[n] \in {"extract", "unlink", "chmod", "version"} =>
                        \E v \in 1..(n - 1) : inst.log[v] = "verify"
        /\ (Logged("verify") /\ ~DigestListed) =>
              /\ inst.pc = "rejected"
              /\ ~Logged("extract") /\ ~Logged("unlink") /\ ~Logged("chmod") /\ ~Logged("version")

\* A checksums file naming the release file twice, the second time with the
\* digest of the download: install() verified, extracted and resolved.
C30_Witness ==
    /\ inst.pc = "fulfilled"
    /\ ~env.skipChecksum
    /\ inst.log = <<"download", "verify", "extract", "unlink", "chmod", "version">>
    /\ Len(inst.checksums.lines) = 2
    /\ inst.checksums.lines[1] = <<<<"b","b","2","2">>, env.releaseFile.v>>
    /\ inst.checksums.lines[2] = <<<<"a","a","1","1">>, env.releaseFile.v>>
    /\ inst.fileHash = <<"a","a","1","1">>
    /\ LocalBin \in disk

-----------------------------------------------------------------------------
(* C29 *)

\* The finished call passed one property that is set and matches no flag.
UnknownOption ==
    /\ Done
    /\ Len(call.args) = 2
    /\ Len(trace) = 1
    /\ ~trace[1].skipped
    /\ ~trace[1].matched

AllNumbers(items) == \A i \in 1..Len(items) : items[i].t = "number"

\* C29 as stated: the kind inferred for an unknown key whose value is a
\* non-empty array is number-list when every element is a number and
\* string-list when some element is not.
C29_KindByElements ==
    (UnknownOption /\ isArray(trace[1].value) /\ Len(trace[1].value.v) > 0)
        => trace[1].kind = (IF AllNumbers(trace[1].value.v)
                            THEN "number[]" ELSE "string[]")

\* The kind of the amended statement: decided for an array by its first
\* element alone.
KindByFirstElement(value) ==
    CASE value.t = "boolean" -> "boolean"
      [] value.t = "number"  -> "number"
      [] isArray(value) /\ Len(value.v) > 0 /\ value.v[1].t = "number" -> "number[]"
      [] isArray(value)      -> "string[]"
      [] OTHER               -> "string"

\* The tokens a value of the kind puts after the flag name.
TokensByKind(kind, flagName, value) ==
    CASE kind = "boolean" -> IF value = Bool(TRUE) THEN <<flagName>> ELSE <<>>
      [] kind \in {"number", "string"} -> <<flagName, String(value)>>
      [] OTHER -> Flatten([i \in 1..Len(value.v) |-> <<flagName, String(value.v[i])>>], 1)

\* C29, amended: an options key with no matching flag spec is not an error;
\* its kind is boolean for a boolean, number for a number, number-list for a
\* non-empty array whose first element is a number, string-list for any other
\* array and string otherwise, and the call's arguments are the command's
\* words followed by the tokens of that kind under the hyphenated key.
C29_KindByFirstElement ==
    UnknownOption =>
        /\ ~out.threw
        /\ trace[1].kind = KindByFirstElement(trace[1].value)
        /\ trace[1].flagName = <<"-","-">> \o camelToKebab(trace[1].key)
        /\ out.args = split(CallCommand)
                        \o TokensByKind(KindByFirstElement(trace[1].value),
                                        trace[1].flagName, trace[1].value)

\* C29 witness: an unknown key carrying an array of a number and a string
\* was serialized.
C29_Witness ==
    /\ UnknownOption
    /\ trace[1].value = Arr(<<Num(8), Str(<<"a">>)>>)
    /\ Len(out.args) > Len(split(CallCommand))

-----------------------------------------------------------------------------
(* C27 *)

\* The emitter has named the property of a flag parsed from a section.
Emitted == ppc = "done" /\ pout.fn = "emitInterfaces" /\ pout.r.f # NoFlag

EmittedLongName == normalizeLong(pout.r.f.long)

HasHyphen(name) == \E k \in 1..Len(name) : name[k] = "-"

HasInternalCapital(name) == \E k \in 2..Len(name) : IsUpper(name[k])

\* The words of a hyphenated name joined into one camel-cased word: the
\* hyphens go, and a character that follows a hyphen is put in upper case.
RECURSIVE CamelJoined(_, _, _)
CamelJoined(name, i, afterHyphen) ==
    IF i > Len(name) THEN <<>>
    ELSE IF name[i] = "-" THEN CamelJoined(name, i + 1, TRUE)
    ELSE <<IF afterHyphen THEN toUpperCase(name[i]) ELSE name[i]>>
         \o CamelJoined(name, i + 1, FALSE)

\* C27 as stated: the property is the long name's words joined into one
\* camel-cased word, unless the long name contains internal capitalization,
\* in which case it is the long name verbatim.
C27_VerbatimWhenCapitalized ==
    Emitted =>
        pout.r.prop = (IF HasInternalCapital(EmittedLongName)
                       THEN EmittedLongName
                       ELSE CamelJoined(EmittedLongName, 1, FALSE))

\* C27, amended: the property is the long name's words joined into one
\* camel-cased word, also when the name holds capitals; a long name without
\* a hyphen, capitalized inside or not, is passed through verbatim.
C27_VerbatimWhenNoHyphen ==
    Emitted =>
        /\ pout.r.prop = CamelJoined(EmittedLongName, 1, FALSE)
        /\ ~HasHyphen(EmittedLongName) => pout.r.prop = EmittedLongName

\* C27 witness: the emitter named a hyphenated long name that also holds a
\* capital.
C27_Witness ==
    /\ Emitted
    /\ HasHyphen(EmittedLongName)
    /\ HasInternalCapital(EmittedLongName)
    /\ pout.r.prop # EmittedLongName

-----------------------------------------------------------------------------
(* C23 *)

\* C23: buildArgs given the property name the emitter generates for a flag
\* of the command resolves to that flag and emits its exact long token.
C23_RoundTrip ==
    Emitted =>
        /\ pout.r.opt.matched
        /\ pout.r.opt.flagName = pout.r.f.long
        /\ pout.r.opt.kind = pout.r.f.kind
        /\ Len(pout.r.opt.pushed) > 0
        /\ pout.r.opt.pushed[1] = pout.r.f.long

====
